---- MODULE Spec2Model ----
(***************************************************************************)
(* Inventory console (wynson09/inventory-system-front): the products page  *)
(* (search debounce, filter panel, pagination, URL query string), the      *)
(* ProductsTable component's own search debounce, and the cache patches    *)
(* applied after create / update / delete.                                 *)
(*                                                                         *)
(* Conventions                                                             *)
(*   - an optional value is a sequence: <<>> is undefined/null, <<v>> is v *)
(*   - a search text or a category is a TLA+ string                        *)
(*   - a numeric query parameter is a sequence of one-character strings,   *)
(*     so that Number.toString, parseFloat and parseInt are computed       *)
(*   - numbers are integers; NaN is a reserved integer outside every       *)
(*     domain used, and the arithmetic below treats it as JavaScript does  *)
(*   - time is counted in milliseconds and advances in TimeSteps           *)
(***************************************************************************)
EXTENDS Integers, Sequences, FiniteSets, TLC

VARIABLES
  component,         \* which search component is mounted: "page" | "table"
  mounted,           \* FALSE once the component has been unmounted
  phase,             \* "rendered": first render done, mount effect not yet run; "ready"
  setterStable,      \* whether the router keeps setSearchParams' identity across URL changes
  url,               \* the query string, as the recognised parameters
  filters,           \* Products: useState<ProductFilters>
  currentPage,       \* Products: useState(1)
  localSearchValue,  \* Products / ProductsTable: raw text of the search input
  debounceTimeout,   \* the pending setTimeout of debounceTimeoutRef, if any
  hscFilters,        \* the `filters` captured by the memoised handleSearchChange
  localFilters,      \* FilterDropdown: useState<ProductFilters>(filters)
  productsData,      \* Products: data of useProducts for the current query key
  productToDelete,   \* Products: product of the open delete modal
  deleteMutation,    \* the in-flight deletes, each with the closure of its handleDeleteConfirm
  searchQuery,       \* ProductsTable: the searchQuery prop
  onSearchArg,       \* ProductsTable: argument of the latest onSearch call
  used,              \* number of gestures the user has made
  lastOp,            \* history: the handler that last changed the filters, the page or the URL
  typed,             \* history: texts of the handleSearchChange calls of the current burst
  sinceChange,       \* history: ms since the latest of them (saturating at the delay)
  commits,           \* history: debounced commits since the latest of them
  lastCommit,        \* history: text and time of the latest debounced commit
  cleared,           \* history: clearSearch ran and no text change since
  submitted,         \* history: what the latest filter-panel submission was made from
  queryCache,        \* query cache: list entries by key
  detailCache,       \* query cache: single-item entries by id
  storeProducts,     \* product store: products
  storeCurrent,      \* product store: currentProduct
  storeTotal,        \* product store: pagination.total
  pending,           \* mutation requests in flight
  lastPatch,         \* history: the latest applied patch with the state before it
  fetching,          \* Products: the list query of the current key has a request in flight
  issued,            \* history: the list requests issued by the latest change of filters or page
  isCreateModalOpen, \* Products: useState(false), the create modal is open
  createMutation,    \* CreateProductModal: the create requests in flight
  form,              \* create form: sku, price, errors, isSubmitted
  queryError,        \* query cache: the list keys whose query is in the error state
  storeLoading,      \* product store: isLoading
  storeError,        \* product store: error
  storeInFlight,     \* product store: the kinds of request in flight
  reported,          \* the message of the latest failure shown to the user
  lsToken,           \* localStorage: the item 'token'
  lsUser,            \* localStorage: the item 'user'
  auth,              \* auth store: user, token, isAuthenticated, isLoading, error
  authStorage,       \* localStorage: the item 'auth-storage' written by persist
  location,          \* the view the browser shows: "login" | "app"
  authRequest,       \* the API request in flight, with the times it was sent
  rt                 \* round trip: the state that was published

vars == <<component, mounted, phase, setterStable, url, filters, currentPage,
          localSearchValue, debounceTimeout, hscFilters, localFilters,
          productsData, productToDelete, deleteMutation, searchQuery,
          onSearchArg, used, lastOp, typed, sinceChange, commits, lastCommit,
          cleared, submitted, queryCache, detailCache, storeProducts, storeCurrent,
          storeTotal, pending, lastPatch, rt,
          fetching, issued, isCreateModalOpen, createMutation, form, queryError,
          storeLoading, storeError, storeInFlight, reported,
          lsToken, lsUser, auth, authStorage, location, authRequest>>

pageVars == <<url, filters, currentPage, hscFilters, localFilters,
              productsData, productToDelete, deleteMutation>>
tableVars == <<searchQuery, onSearchArg>>
failVars == <<queryError, storeLoading, storeError, storeInFlight, reported>>
cacheVars == <<queryCache, detailCache, storeProducts, storeCurrent,
               storeTotal, pending, lastPatch, failVars>>
histVars == <<typed, sinceChange, commits, lastCommit, cleared>>
fetchVars == <<fetching, issued>>
modalVars == <<isCreateModalOpen, createMutation, form>>
authVars == <<lsToken, lsUser, auth, authStorage, location, authRequest>>


-----------------------------------------------------------------------------
(* Optional values *)

Absent == <<>>
Some(v) == <<v>>
IsPresent(o) == o # Absent

\* the texts of the burst after one more change: a change that finds a timer
\* pending continues the burst, any other change starts one
BurstAfter(value) ==
  IF IsPresent(debounceTimeout) THEN Append(typed, value) ELSE <<value>>

\* the text of the latest change
LastTyped == typed[Len(typed)]

-----------------------------------------------------------------------------
(* Numbers and their text form *)

NaN == -1000000

IsNaN(n) == n = NaN

Digits == <<"0", "1", "2", "3", "4", "5", "6", "7", "8", "9">>

IsDigit(c) == \E d \in 1..10 : Digits[d] = c

DigitVal(c) == (CHOOSE d \in 1..10 : Digits[d] = c) - 1

RECURSIVE NatToString(_)
NatToString(n) ==
  IF n < 10 THEN <<Digits[n + 1]>>
  ELSE NatToString(n \div 10) \o <<Digits[(n % 10) + 1]>>

\* Number.prototype.toString for the numbers of the model
NumToString(n) ==
  IF IsNaN(n) THEN <<"N", "a", "N">>
  ELSE IF n < 0 THEN <<"-">> \o NatToString(0 - n)
  ELSE NatToString(n)

\* value of the longest prefix of digits of s, starting from acc
RECURSIVE DigitsValue(_, _)
DigitsValue(s, acc) ==
  IF s = <<>> \/ ~IsDigit(Head(s)) THEN acc
  ELSE DigitsValue(Tail(s), acc * 10 + DigitVal(Head(s)))

\* the numeric prefix of s: optional sign, then digits; NaN when there is none
ParseLeading(s) ==
  LET neg == s # <<>> /\ Head(s) = "-"
      body == IF s # <<>> /\ Head(s) \in {"-", "+"} THEN Tail(s) ELSE s
  IN IF body = <<>> \/ ~IsDigit(Head(body)) THEN NaN
     ELSE IF neg THEN 0 - DigitsValue(body, 0) ELSE DigitsValue(body, 0)

\* parseFloat and parseInt(s, 10) agree on texts without '.', 'e' or blanks,
\* the only texts the model feeds them
ParseFloat(s) == ParseLeading(s)
ParseInt(s) == ParseLeading(s)

\* JavaScript comparisons and arithmetic with NaN
Gt(a, b) == ~IsNaN(a) /\ ~IsNaN(b) /\ a > b
Minus(a, b) == IF IsNaN(a) \/ IsNaN(b) THEN NaN ELSE a - b
Plus(a, b) == IF IsNaN(a) \/ IsNaN(b) THEN NaN ELSE a + b
\* Math.max / Math.min return NaN when an argument is NaN
MathMax(a, b) == IF IsNaN(a) \/ IsNaN(b) THEN NaN ELSE IF a > b THEN a ELSE b
MathMin(a, b) == IF IsNaN(a) \/ IsNaN(b) THEN NaN ELSE IF a < b THEN a ELSE b

-----------------------------------------------------------------------------
(* ProductFilters and the query string *)

EmptyFilters ==
  [search |-> Absent, category |-> Absent, minPrice |-> Absent,
   maxPrice |-> Absent, inStock |-> Absent]

EmptyUrl ==
  [search |-> Absent, category |-> Absent, minPrice |-> Absent,
   maxPrice |-> Absent, inStock |-> Absent, page |-> Absent]

\* truthiness of an optional string / an optional boolean
TruthyStr(o) == IsPresent(o) /\ o[1] # ""
TruthyBool(o) == IsPresent(o) /\ o[1] = TRUE

\* an updateUrlParams that tests the prices for truthiness, as it does the texts
UrlParamsOf_TruthyPrice(f, page) ==
  [search   |-> IF TruthyStr(f.search) THEN Some(f.search[1]) ELSE Absent,
   category |-> IF TruthyStr(f.category) THEN Some(f.category[1]) ELSE Absent,
   minPrice |-> IF IsPresent(f.minPrice) /\ f.minPrice[1] # 0 /\ ~IsNaN(f.minPrice[1])
                THEN Some(NumToString(f.minPrice[1])) ELSE Absent,
   maxPrice |-> IF IsPresent(f.maxPrice) /\ f.maxPrice[1] # 0 /\ ~IsNaN(f.maxPrice[1])
                THEN Some(NumToString(f.maxPrice[1])) ELSE Absent,
   inStock  |-> IF TruthyBool(f.inStock) THEN Some("true") ELSE Absent,
   page     |-> IF Gt(page, 1) THEN Some(NumToString(page)) ELSE Absent]

\* the URLSearchParams built by updateUrlParams(filters, page)
UrlParamsOf(f, page) ==
  [search   |-> IF TruthyStr(f.search) THEN Some(f.search[1]) ELSE Absent,
   category |-> IF TruthyStr(f.category) THEN Some(f.category[1]) ELSE Absent,
   minPrice |-> IF IsPresent(f.minPrice) THEN Some(NumToString(f.minPrice[1])) ELSE Absent,
   maxPrice |-> IF IsPresent(f.maxPrice) THEN Some(NumToString(f.maxPrice[1])) ELSE Absent,
   inStock  |-> IF TruthyBool(f.inStock) THEN Some("true") ELSE Absent,
   page     |-> IF Gt(page, 1) THEN Some(NumToString(page)) ELSE Absent]

\* searchParams.get(name) || ''
GetOrEmpty(o) == IF IsPresent(o) THEN o[1] ELSE ""

\* text || undefined
StrOrUndefined(s) == IF s = "" THEN Absent ELSE Some(s)

\* searchParams.get(name) ? parseFloat(searchParams.get(name)!) : undefined
PriceFromUrl(o) ==
  IF IsPresent(o) /\ o[1] # <<>> THEN Some(ParseFloat(o[1])) ELSE Absent

\* the FilterSet the mount effect computes from the query string
FiltersFromUrl(u) ==
  [search   |-> StrOrUndefined(GetOrEmpty(u.search)),
   category |-> StrOrUndefined(GetOrEmpty(u.category)),
   minPrice |-> PriceFromUrl(u.minPrice),
   maxPrice |-> PriceFromUrl(u.maxPrice),
   inStock  |-> IF u.inStock = Some("true") THEN Some(TRUE) ELSE Absent]

\* parseInt(searchParams.get('page') || '1', 10)
PageFromUrl(u) ==
  IF IsPresent(u.page) /\ u.page[1] # <<>> THEN ParseInt(u.page[1]) ELSE 1

-----------------------------------------------------------------------------
(* Program constants and the input sets of the model *)

DEBOUNCE_MS == 300
itemsPerPage == 10

\* amounts by which the clock advances
TimeSteps == {100, 200}

\* texts a user types in the search box
SearchTexts == {"", "a", "ab"}

\* categories ticked in the filter panel
Categories == {"Books"}

\* texts typed in the two price inputs of the filter panel
PriceInputs == {<<>>, <<"5">>}

\* query strings the page is opened with
InitialUrls ==
  { EmptyUrl,
    [EmptyUrl EXCEPT !.category = Some("Books")],
    [EmptyUrl EXCEPT !.search = Some("a"), !.page = Some(<<"2">>)],
    [EmptyUrl EXCEPT !.minPrice = Some(<<"5">>), !.inStock = Some("true")],
    [EmptyUrl EXCEPT !.maxPrice = Some(<<"x">>), !.inStock = Some("false"),
                     !.page = Some(<<"z">>)] }

\* list results the server answers with: number of records on the page, total
ServerResults ==
  { [len |-> 0, total |-> 0],
    [len |-> 1, total |-> 11],
    [len |-> 2, total |-> 12] }

\* numbered page buttons the model clicks
MaxPage == 2

\* gestures (key strokes and clicks) of one session
MaxGestures == 4

-----------------------------------------------------------------------------
(* Derived values of a render of the products page *)

\* products = productsData?.data || []
ProductsLength == IF IsPresent(productsData) THEN productsData[1].len ELSE 0

\* pagination?.total || 0
PaginationTotal == IF IsPresent(productsData) THEN productsData[1].total ELSE 0

\* Math.ceil((pagination?.total || 0) / itemsPerPage)
totalPages == (PaginationTotal + itemsPerPage - 1) \div itemsPerPage

\* the pagination bar is rendered: products.length > 0 && !isLoading
PaginationShown == ProductsLength > 0

\* productKeys.list(filters, page, limit): the key of the current query
QueryKey(f, page) == <<f, page>>

\* data of the query once the key is (f, page): kept when the key is the same
\* and served from the query cache when a fresh entry of the new key is there
DataAfter(f, page) ==
  IF QueryKey(f, page) = QueryKey(filters, currentPage) THEN productsData
  ELSE IF queryCache # <<>> /\ QueryKey(f, page) \in DOMAIN queryCache
       THEN Some(queryCache[QueryKey(f, page)])
       ELSE Absent

\* the params useProducts.queryFn hands to apiService.getProducts; axios leaves
\* out the undefined ones
ListParams(f, page) ==
  [page |-> page, limit |-> itemsPerPage, search |-> f.search,
   category |-> f.category]

\* a list request: the key of the query that issued it and what it sends
ListRequest(f, page) == [key |-> QueryKey(f, page), params |-> ListParams(f, page)]

\* setting the state to (f, page) makes useProducts fetch: the key is new and
\* the cache holds nothing for it
FetchStarts(f, page) ==
  QueryKey(f, page) # QueryKey(filters, currentPage) /\ DataAfter(f, page) = Absent

\* isFetching of the query after the state is set to (f, page)
FetchingAfter(f, page) ==
  IF QueryKey(f, page) # QueryKey(filters, currentPage)
  THEN DataAfter(f, page) = Absent
  ELSE fetching

\* the requests issued when the state is set to (f, page): the setters of one
\* handler are batched into one render, which has one key
IssuedBy(f, page) ==
  IF FetchStarts(f, page) THEN <<ListRequest(f, page)>> ELSE <<>>

\* handleSearchChange is recreated, capturing the filters of that render,
\* when updateUrlParams changes, that is when setSearchParams does
ClosureAfter(newUrl, newFilters) ==
  IF ~setterStable /\ newUrl # url THEN newFilters ELSE hscFilters

\* a FilterDropdown that never copies the filters prop into its local state
SyncLocalFilters_Skip(newFilters) == localFilters

\* FilterDropdown: useEffect(() => setLocalFilters(filters), [filters]), run
\* after every setFilters of the page
SyncLocalFilters(newFilters) == newFilters

PageReady == component = "page" /\ mounted /\ phase = "ready"

\* a timer whose delay has elapsed runs before anything else
TimerDue == IsPresent(debounceTimeout) /\ debounceTimeout[1].remaining = 0

Idle == ~TimerDue

-----------------------------------------------------------------------------
(* Products page *)

\* useEffect(() => {...}, []): initialize filters from the URL on mount
InitializeFromUrl ==
  /\ component = "page" /\ mounted /\ phase = "rendered"
  /\ phase' = "ready"
  /\ localSearchValue' = GetOrEmpty(url.search)
  /\ filters' = FiltersFromUrl(url)
  /\ currentPage' = PageFromUrl(url)
  /\ localFilters' = SyncLocalFilters(FiltersFromUrl(url))
  /\ productsData' = DataAfter(FiltersFromUrl(url), PageFromUrl(url))
  /\ lastOp' = "init"
  /\ UNCHANGED used
  /\ UNCHANGED <<component, mounted, setterStable, url, debounceTimeout,
                 hscFilters, productToDelete, deleteMutation>>
  /\ UNCHANGED <<tableVars, histVars, cacheVars, modalVars, authVars, rt, submitted>>
  /\ fetching' = FetchingAfter(FiltersFromUrl(url), PageFromUrl(url))
  /\ issued' = issued \o IssuedBy(FiltersFromUrl(url), PageFromUrl(url))

\* a handleSearchChange that leaves a pending timer alone instead of replacing it
NewTimeout_KeepPending(value) ==
  IF IsPresent(debounceTimeout) THEN debounceTimeout
  ELSE Some([value |-> value, filters |-> hscFilters, remaining |-> DEBOUNCE_MS])

\* the timer set by handleSearchChange(value): the pending one is cleared first
NewTimeout(value) ==
  Some([value |-> value, filters |-> hscFilters, remaining |-> DEBOUNCE_MS])

\* handleSearchChange(value)
HandleSearchChange(value) ==
  /\ PageReady /\ Idle
  /\ value # localSearchValue
  /\ localSearchValue' = value
  /\ debounceTimeout' = NewTimeout(value)
  /\ typed' = BurstAfter(value)
  /\ sinceChange' = 0
  /\ commits' = 0
  /\ lastCommit' = Absent
  /\ cleared' = FALSE
  /\ UNCHANGED lastOp
  /\ used < MaxGestures
  /\ used' = used + 1
  /\ UNCHANGED <<component, mounted, phase, setterStable>>
  /\ UNCHANGED <<pageVars, tableVars, cacheVars, fetchVars, modalVars, authVars, rt, submitted>>

\* { ...filters, search: value } in the timer callback
CommitFilters(t) == [t.filters EXCEPT !.search = Some(t.value)]

\* the callback of the debounce timer; a timer that was not cleared runs
\* whether the page is mounted or not: the state setters do nothing once the
\* page is unmounted, the URL is rewritten all the same
DebounceFire ==
  /\ component = "page" /\ phase = "ready" /\ TimerDue
  /\ LET t == debounceTimeout[1]
         newFilters == CommitFilters(t)
         newUrl == UrlParamsOf(newFilters, 1)
     IN /\ url' = newUrl
        /\ IF mounted
           THEN /\ filters' = newFilters
                /\ currentPage' = 1
                /\ localFilters' = SyncLocalFilters(newFilters)
                /\ productsData' = DataAfter(newFilters, 1)
                /\ hscFilters' = ClosureAfter(newUrl, newFilters)
                /\ fetching' = FetchingAfter(newFilters, 1)
                /\ issued' = IssuedBy(newFilters, 1)
           ELSE UNCHANGED <<filters, currentPage, localFilters, productsData,
                            hscFilters, fetching, issued>>
        /\ lastCommit' = Some([text |-> t.value, at |-> sinceChange])
  /\ debounceTimeout' = Absent
  /\ commits' = IF commits < 2 THEN commits + 1 ELSE commits
  /\ lastOp' = "commit"
  /\ UNCHANGED used
  /\ UNCHANGED <<component, mounted, phase, setterStable, localSearchValue,
                 productToDelete, deleteMutation, typed, sinceChange, cleared>>
  /\ UNCHANGED <<tableVars, cacheVars, modalVars, authVars, rt, submitted>>

\* clearSearch()
ClearSearch ==
  /\ PageReady /\ Idle
  /\ localSearchValue # "" \/ (TruthyStr(filters.search) /\ ProductsLength = 0)
  /\ LET newFilters == [filters EXCEPT !.search = Absent]
         newUrl == UrlParamsOf(newFilters, 1)
     IN /\ filters' = newFilters
        /\ currentPage' = 1
        /\ url' = newUrl
        /\ localFilters' = SyncLocalFilters(newFilters)
        /\ productsData' = DataAfter(newFilters, 1)
        /\ hscFilters' = ClosureAfter(newUrl, newFilters)
  /\ localSearchValue' = ""
  /\ UNCHANGED debounceTimeout
  /\ cleared' = TRUE
  /\ lastOp' = "clear"
  /\ used < MaxGestures
  /\ used' = used + 1
  /\ UNCHANGED <<component, mounted, phase, setterStable, productToDelete,
                 deleteMutation, typed, sinceChange, commits, lastCommit>>
  /\ UNCHANGED <<tableVars, cacheVars, modalVars, authVars, rt, submitted>>
  /\ fetching' = FetchingAfter([filters EXCEPT !.search = Absent], 1)
  /\ issued' = IssuedBy([filters EXCEPT !.search = Absent], 1)

-----------------------------------------------------------------------------
(* FilterDropdown *)

\* handleCategoryChange(category, checked): the checkbox of one category
HandleCategoryChange(category, checked) ==
  /\ PageReady /\ Idle
  /\ checked = (localFilters.category # Some(category))
  /\ localFilters' = [localFilters EXCEPT
                        !.category = IF checked THEN Some(category) ELSE Absent]
  /\ UNCHANGED lastOp
  /\ used < MaxGestures
  /\ used' = used + 1
  /\ UNCHANGED <<component, mounted, phase, setterStable, url, filters,
                 currentPage, localSearchValue, debounceTimeout, hscFilters,
                 productsData, productToDelete, deleteMutation>>
  /\ UNCHANGED <<tableVars, histVars, cacheVars, fetchVars, modalVars, authVars, rt, submitted>>

\* value === '' ? undefined : parseFloat(value)
PriceOfInput(value) == IF value = <<>> THEN Absent ELSE Some(ParseFloat(value))

\* handlePriceChange(field, value): one of the two price inputs
HandlePriceChange(field, value) ==
  /\ PageReady /\ Idle
  /\ localFilters' = IF field = "minPrice"
                     THEN [localFilters EXCEPT !.minPrice = PriceOfInput(value)]
                     ELSE [localFilters EXCEPT !.maxPrice = PriceOfInput(value)]
  /\ localFilters' # localFilters
  /\ UNCHANGED lastOp
  /\ used < MaxGestures
  /\ used' = used + 1
  /\ UNCHANGED <<component, mounted, phase, setterStable, url, filters,
                 currentPage, localSearchValue, debounceTimeout, hscFilters,
                 productsData, productToDelete, deleteMutation>>
  /\ UNCHANGED <<tableVars, histVars, cacheVars, fetchVars, modalVars, authVars, rt, submitted>>

\* handleInStockChange(checked): the in-stock checkbox
HandleInStockChange(checked) ==
  /\ PageReady /\ Idle
  /\ checked = ~TruthyBool(localFilters.inStock)
  /\ localFilters' = [localFilters EXCEPT
                        !.inStock = IF checked THEN Some(TRUE) ELSE Absent]
  /\ UNCHANGED lastOp
  /\ used < MaxGestures
  /\ used' = used + 1
  /\ UNCHANGED <<component, mounted, phase, setterStable, url, filters,
                 currentPage, localSearchValue, debounceTimeout, hscFilters,
                 productsData, productToDelete, deleteMutation>>
  /\ UNCHANGED <<tableVars, histVars, cacheVars, fetchVars, modalVars, authVars, rt, submitted>>

\* Products.handleFiltersChange(newFilters), followed by the effect of
\* FilterDropdown that copies the new filters prop into localFilters
HandleFiltersChange(newFilters) ==
  /\ filters' = newFilters
  /\ currentPage' = 1
  /\ url' = UrlParamsOf(newFilters, 1)
  /\ localFilters' = SyncLocalFilters(newFilters)
  /\ productsData' = DataAfter(newFilters, 1)
  /\ hscFilters' = ClosureAfter(UrlParamsOf(newFilters, 1), newFilters)
  /\ UNCHANGED <<component, mounted, phase, setterStable, localSearchValue,
                 debounceTimeout, productToDelete, deleteMutation>>
  /\ UNCHANGED <<tableVars, histVars, cacheVars, modalVars, authVars, rt>>
  /\ fetching' = FetchingAfter(newFilters, 1)
  /\ issued' = IssuedBy(newFilters, 1)

\* applyFilters(): the 'Apply filters' button
ApplyFilters ==
  /\ PageReady /\ Idle
  /\ HandleFiltersChange(localFilters)
  /\ submitted' = Some([panel |-> localFilters, search |-> filters.search,
                        page |-> currentPage])
  /\ lastOp' = "filters"
  /\ used < MaxGestures
  /\ used' = used + 1

\* a Clear that drops the committed search as well
ClearedFilters_DropSearch == EmptyFilters

\* const clearedFilters = { search: filters.search }
ClearedFilters == [EmptyFilters EXCEPT !.search = filters.search]

\* clearFilters(): the 'Clear' buttons of the panel
ClearFilters ==
  /\ PageReady /\ Idle
  /\ HandleFiltersChange(ClearedFilters)
  /\ submitted' = Some([panel |-> EmptyFilters, search |-> filters.search,
                        page |-> currentPage])
  /\ lastOp' = "filters"
  /\ used < MaxGestures
  /\ used' = used + 1

-----------------------------------------------------------------------------
(* Pagination of the products page *)

\* handlePageChange(page)
HandlePageChange(page) ==
  /\ currentPage' = page
  /\ url' = UrlParamsOf(filters, page)
  /\ productsData' = DataAfter(filters, page)
  /\ hscFilters' = ClosureAfter(UrlParamsOf(filters, page), filters)
  /\ lastOp' = "page"
  /\ used < MaxGestures
  /\ used' = used + 1
  /\ UNCHANGED <<component, mounted, phase, setterStable, filters,
                 localSearchValue, debounceTimeout, localFilters,
                 productToDelete, deleteMutation>>
  /\ UNCHANGED <<tableVars, histVars, cacheVars, modalVars, authVars, rt, submitted>>
  /\ fetching' = FetchingAfter(filters, page)
  /\ issued' = IssuedBy(filters, page)

\* handlePreviousPage(): disabled on page 1
HandlePreviousPage ==
  /\ PageReady /\ Idle /\ PaginationShown
  /\ currentPage # 1
  /\ HandlePageChange(MathMax(1, Minus(currentPage, 1)))

\* handleNextPage(): disabled on the last page
HandleNextPage ==
  /\ PageReady /\ Idle /\ PaginationShown
  /\ currentPage # totalPages
  /\ HandlePageChange(MathMin(totalPages, Plus(currentPage, 1)))

\* handleGoToPage(page): the numbered buttons 1 .. min(5, totalPages)
HandleGoToPage(page) ==
  /\ PageReady /\ Idle /\ PaginationShown
  /\ page <= 5 /\ page <= totalPages
  /\ HandlePageChange(page)

\* handleGoToLastPage(): the button shown when totalPages > 5
HandleGoToLastPage ==
  /\ PageReady /\ Idle /\ PaginationShown
  /\ totalPages > 5
  /\ HandlePageChange(totalPages)

-----------------------------------------------------------------------------
(* The list query of the products page *)

\* the query of the current key delivers a result (from the cache or the server)
QueryData(r) ==
  /\ PageReady /\ Idle
  /\ productsData # Some(r)
  /\ productsData' = Some(r)
  /\ UNCHANGED lastOp
  /\ UNCHANGED used
  /\ UNCHANGED <<component, mounted, phase, setterStable, url, filters,
                 currentPage, localSearchValue, debounceTimeout, hscFilters,
                 localFilters, productToDelete, deleteMutation>>
  /\ UNCHANGED <<tableVars, histVars, cacheVars, modalVars, authVars, rt, submitted>>
  /\ fetching' = FALSE
  /\ UNCHANGED issued

-----------------------------------------------------------------------------
(* Deleting a product from the products page *)

\* handleDeleteClick(product): the trash button of a row
HandleDeleteClick ==
  /\ PageReady /\ Idle
  /\ ProductsLength > 0
  /\ productToDelete = Absent /\ ~isCreateModalOpen
  /\ productToDelete' = Some("p")
  /\ UNCHANGED lastOp
  /\ used < MaxGestures
  /\ used' = used + 1
  /\ UNCHANGED <<component, mounted, phase, setterStable, url, filters,
                 currentPage, localSearchValue, debounceTimeout, hscFilters,
                 localFilters, productsData, deleteMutation>>
  /\ UNCHANGED <<tableVars, histVars, cacheVars, fetchVars, modalVars, authVars, rt, submitted>>

\* deleteProductMutation.isPending: a delete request is in flight
IsDeleting == deleteMutation # <<>>

\* a modal whose controls stay enabled while the delete is pending
ControlsDisabled_Never(isDeleting) == FALSE

\* DeleteConfirmationModal: disabled={isDeleting} on X, Cancel and Delete
ControlsDisabled(isDeleting) == isDeleting

\* handleDeleteCancel(): Cancel and X are disabled while the delete is pending
HandleDeleteCancel ==
  /\ PageReady /\ Idle
  /\ IsPresent(productToDelete) /\ ~ControlsDisabled(IsDeleting)
  /\ productToDelete' = Absent
  /\ UNCHANGED lastOp
  /\ used < MaxGestures
  /\ used' = used + 1
  /\ UNCHANGED <<component, mounted, phase, setterStable, url, filters,
                 currentPage, localSearchValue, debounceTimeout, hscFilters,
                 localFilters, productsData, deleteMutation>>
  /\ UNCHANGED <<tableVars, histVars, cacheVars, fetchVars, modalVars, authVars, rt, submitted>>

\* handleDeleteConfirm() up to its await: the request is sent; what follows the
\* await reads products, currentPage and filters of the render of the click
HandleDeleteConfirm ==
  /\ PageReady /\ Idle
  /\ IsPresent(productToDelete) /\ ~ControlsDisabled(IsDeleting)
  /\ deleteMutation' = Append(deleteMutation,
                              [len |-> ProductsLength, page |-> currentPage,
                               filters |-> filters])
  /\ UNCHANGED lastOp
  /\ used < MaxGestures
  /\ used' = used + 1
  /\ UNCHANGED <<component, mounted, phase, setterStable, url, filters,
                 currentPage, localSearchValue, debounceTimeout, hscFilters,
                 localFilters, productsData, productToDelete>>
  /\ UNCHANGED <<tableVars, histVars, cacheVars, fetchVars, modalVars, authVars, rt, submitted>>

\* a cached list after the updater of useDeleteProduct.onSuccess ran on it:
\* the record is filtered out when found, the total is Math.max(0, total - 1)
PatchedEntry(e, found) ==
  [len |-> IF found /\ e.len > 0 THEN e.len - 1 ELSE e.len,
   total |-> IF e.total > 0 THEN e.total - 1 ELSE 0]

\* the current list after useDeleteProduct.onSuccess patched it; found tells
\* whether the deleted record was in it
PatchedData(found) ==
  IF productsData = Absent THEN Absent
  ELSE Some(PatchedEntry(productsData[1], found))

\* the page handleDeleteConfirm steps back to
StepBackPage(m) == Minus(m.page, 1)

\* handleDeleteConfirm resumes after its await; back is what the cache holds
\* for the page it steps back to. The state setters do nothing once the page
\* is unmounted; the URL is rewritten all the same.
DeleteResumes(found, back) ==
  /\ component = "page" /\ phase = "ready" /\ Idle
  /\ IsPresent(deleteMutation)
  /\ found => ProductsLength > 0
  /\ LET m == deleteMutation[1]
         stepBack == m.len = 1 /\ Gt(m.page, 1)
         newPage == StepBackPage(m)
         newUrl == IF stepBack THEN UrlParamsOf(m.filters, newPage) ELSE url
         moves == mounted /\ stepBack /\ newPage # currentPage
     IN /\ url' = newUrl
        /\ currentPage' = IF mounted /\ stepBack THEN newPage ELSE currentPage
        /\ productsData' = IF moves THEN back ELSE PatchedData(found)
        /\ hscFilters' = IF mounted THEN ClosureAfter(newUrl, filters) ELSE hscFilters
        /\ lastOp' = IF stepBack THEN "stepBack" ELSE lastOp
        /\ fetching' = IF moves THEN back = Absent ELSE fetching
        /\ issued' = IF moves /\ back = Absent
                     THEN <<ListRequest(filters, newPage)>>
                     ELSE IF moves THEN <<>> ELSE issued
  /\ productToDelete' = IF mounted THEN Absent ELSE productToDelete
  /\ deleteMutation' = Tail(deleteMutation)
  /\ UNCHANGED used
  /\ UNCHANGED <<component, mounted, phase, setterStable, filters,
                 localSearchValue, debounceTimeout, localFilters>>
  /\ UNCHANGED <<tableVars, histVars, modalVars, authVars, rt, submitted>>

\* the delete succeeded and the cache holds no other list
DeleteSuccess(found) ==
  /\ DeleteResumes(found, Absent)
  /\ UNCHANGED cacheVars

\* the delete failed: handleDeleteConfirm logs the error, the modal stays open
DeleteFailure ==
  /\ component = "page" /\ phase = "ready" /\ Idle
  /\ IsPresent(deleteMutation)
  /\ deleteMutation' = Tail(deleteMutation)
  /\ UNCHANGED lastOp
  /\ UNCHANGED used
  /\ UNCHANGED <<component, mounted, phase, setterStable, url, filters,
                 currentPage, localSearchValue, debounceTimeout, hscFilters,
                 localFilters, productsData, productToDelete>>
  /\ UNCHANGED <<tableVars, histVars, cacheVars, fetchVars, modalVars, authVars, rt, submitted>>

-----------------------------------------------------------------------------
(* ProductsTable component (components/ProductsTable.tsx) *)

TableReady == component = "table" /\ mounted

\* onSearch(query) with a parent that stores the query and passes it back as
\* the searchQuery prop, then the effect that copies a changed prop into
\* localSearchValue
OnSearch(query, newLocal) ==
  /\ onSearchArg' = Some(query)
  /\ searchQuery' = query
  /\ localSearchValue' = IF mounted /\ query # searchQuery THEN query
                         ELSE newLocal

\* ProductsTable.handleSearchChange(value)
TableHandleSearchChange(value) ==
  /\ TableReady /\ Idle
  /\ value # localSearchValue
  /\ localSearchValue' = value
  /\ debounceTimeout' = Some([value |-> value, filters |-> EmptyFilters,
                              remaining |-> DEBOUNCE_MS])
  /\ typed' = BurstAfter(value)
  /\ sinceChange' = 0
  /\ commits' = 0
  /\ lastCommit' = Absent
  /\ cleared' = FALSE
  /\ UNCHANGED lastOp
  /\ used < MaxGestures
  /\ used' = used + 1
  /\ UNCHANGED <<component, mounted, phase, setterStable>>
  /\ UNCHANGED <<pageVars, tableVars, cacheVars, fetchVars, modalVars, authVars, rt, submitted>>

\* the callback of ProductsTable's debounce timer; a timer that was not
\* cleared calls the parent's onSearch whether the table is mounted or not
TableDebounceFire ==
  /\ component = "table" /\ TimerDue
  /\ OnSearch(debounceTimeout[1].value, localSearchValue)
  /\ lastCommit' = Some([text |-> debounceTimeout[1].value, at |-> sinceChange])
  /\ debounceTimeout' = Absent
  /\ commits' = IF commits < 2 THEN commits + 1 ELSE commits
  /\ lastOp' = "commit"
  /\ UNCHANGED used
  /\ UNCHANGED <<component, mounted, phase, setterStable, typed, sinceChange,
                 cleared>>
  /\ UNCHANGED <<pageVars, cacheVars, fetchVars, modalVars, authVars, rt, submitted>>

\* ProductsTable.clearSearch()
TableClearSearch ==
  /\ TableReady /\ Idle
  /\ localSearchValue # "" \/ searchQuery # ""
  /\ OnSearch("", "")
  /\ cleared' = TRUE
  /\ lastOp' = "clear"
  /\ used < MaxGestures
  /\ used' = used + 1
  /\ UNCHANGED <<component, mounted, phase, setterStable, debounceTimeout,
                 typed, sinceChange, commits, lastCommit>>
  /\ UNCHANGED <<pageVars, cacheVars, fetchVars, modalVars, authVars, rt, submitted>>

-----------------------------------------------------------------------------
(* Unmount and the passage of time *)

\* a cleanup that leaves the timer running
ClearedOnUnmount_Kept(timeout) == timeout

\* the cleanup effect of either component:
\* if (debounceTimeoutRef.current) clearTimeout(debounceTimeoutRef.current)
ClearedOnUnmount(timeout) == Absent

\* the component is unmounted and its cleanup effect runs
Unmount ==
  /\ mounted /\ phase = "ready" /\ Idle
  /\ mounted' = FALSE
  /\ debounceTimeout' = ClearedOnUnmount(debounceTimeout)
  /\ UNCHANGED lastOp
  /\ used < MaxGestures
  /\ used' = used + 1
  /\ UNCHANGED <<component, phase, setterStable, localSearchValue>>
  /\ UNCHANGED <<pageVars, tableVars, histVars, cacheVars, fetchVars, modalVars, authVars, rt, submitted>>

\* d milliseconds pass; a pending timer comes d closer and never runs late
Tick(d) ==
  /\ IsPresent(debounceTimeout)
  /\ d <= debounceTimeout[1].remaining
  /\ debounceTimeout' =
       Some([debounceTimeout[1] EXCEPT !.remaining = @ - d])
  /\ sinceChange' = IF sinceChange + d > DEBOUNCE_MS THEN DEBOUNCE_MS
                    ELSE sinceChange + d
  /\ UNCHANGED lastOp
  /\ UNCHANGED used
  /\ UNCHANGED <<component, mounted, phase, setterStable, localSearchValue,
                 typed, commits, lastCommit, cleared>>
  /\ UNCHANGED <<pageVars, tableVars, cacheVars, fetchVars, modalVars, authVars, rt, submitted>>

-----------------------------------------------------------------------------
(* The search / filter / pagination specification *)

\* no query in the error state, the store as created, nothing reported
NoFailure ==
  /\ queryError = {}
  /\ storeLoading = FALSE
  /\ storeError = Absent
  /\ storeInFlight = {}
  /\ reported = Absent

NoCache ==
  /\ queryCache = <<>>
  /\ detailCache = <<>>
  /\ storeProducts = <<>>
  /\ storeCurrent = Absent
  /\ storeTotal = 0
  /\ pending = Absent
  /\ lastPatch = Absent
  /\ NoFailure

\* the create modal is closed and no create request is in flight
\* useForm({ defaultValues }) of a create form: the modal starts with no
\* price, the create page with price 0; prices are counted in cents
DefaultPrice(path) == IF path = "createPage" THEN <<0>> ELSE <<>>

\* the create form as useForm creates it and as reset() leaves it
FreshForm(path) ==
  [sku |-> <<>>, price |-> DefaultPrice(path),
   errors |-> [sku |-> <<>>, price |-> <<>>], isSubmitted |-> FALSE]

NoModal ==
  /\ isCreateModalOpen = FALSE /\ createMutation = <<>>
  /\ form = FreshForm("createModal")

\* no list query is observed: nothing in flight, nothing issued
NoFetch == fetching = FALSE /\ issued = <<>>

\* the tokens the server hands out, and the users
Tokens == {"t1", "t2", "t3"}
Users == {"u1", "u2"}

\* what persist() writes of the auth store: user, token, isAuthenticated
Session(user, token, isAuthenticated) ==
  [user |-> user, token |-> token, isAuthenticated |-> isAuthenticated]

\* no user, no token, not authenticated
NoSession == Session(Absent, Absent, FALSE)

\* the auth store of a freshly loaded page: persist() restores user, token
\* and isAuthenticated from the item 'auth-storage', the other fields are as
\* created: isLoading: false, error: null
Rehydrate(stored) ==
  [user |-> stored.user, token |-> stored.token,
   isAuthenticated |-> stored.isAuthenticated,
   isLoading |-> FALSE, error |-> Absent]

\* the browser after a login of user with token: login() stores the token
\* under 'token', persist() stores the session under 'auth-storage', and
\* nothing stores the item 'user'
SignedInAs(user, token) ==
  /\ lsToken = Some(token)
  /\ lsUser = Absent
  /\ authStorage = Session(Some(user), Some(token), TRUE)
  /\ auth = Rehydrate(authStorage)
  /\ location = "app"
  /\ authRequest = Absent

\* the session the products page is used under
SignedIn == SignedInAs("u1", "t1")

NoHistory ==
  /\ used = 0
  /\ lastOp = "mount"
  /\ typed = <<>>
  /\ submitted = Absent
  /\ sinceChange = 0
  /\ commits = 0
  /\ lastCommit = Absent
  /\ cleared = FALSE

\* the products page after its first render, or a mounted ProductsTable
Init ==
  /\ component \in {"page", "table"}
  /\ mounted = TRUE
  /\ phase = IF component = "page" THEN "rendered" ELSE "ready"
  /\ setterStable \in (IF component = "page" THEN BOOLEAN ELSE {TRUE})
  /\ url \in (IF component = "page" THEN InitialUrls ELSE {EmptyUrl})
  /\ filters = EmptyFilters
  /\ currentPage = 1
  /\ searchQuery \in (IF component = "table" THEN {"", "a"} ELSE {""})
  /\ localSearchValue = searchQuery
  /\ debounceTimeout = Absent
  /\ hscFilters = EmptyFilters
  /\ localFilters = EmptyFilters
  /\ productsData = Absent
  /\ productToDelete = Absent
  /\ deleteMutation = Absent
  /\ onSearchArg = Absent
  /\ NoHistory
  /\ NoCache
  /\ rt = Absent
  /\ fetching = (component = "page")
  /\ issued = IF component = "page" THEN <<ListRequest(EmptyFilters, 1)>> ELSE <<>>
  /\ NoModal
  /\ SignedIn

Next ==
  \/ InitializeFromUrl
  \/ \E value \in SearchTexts : HandleSearchChange(value)
  \/ DebounceFire
  \/ ClearSearch
  \/ \E c \in Categories, checked \in BOOLEAN : HandleCategoryChange(c, checked)
  \/ \E field \in {"minPrice", "maxPrice"}, value \in PriceInputs :
       HandlePriceChange(field, value)
  \/ \E checked \in BOOLEAN : HandleInStockChange(checked)
  \/ ApplyFilters
  \/ ClearFilters
  \/ HandlePreviousPage
  \/ HandleNextPage
  \/ \E page \in 1..MaxPage : HandleGoToPage(page)
  \/ \E r \in ServerResults : QueryData(r)
  \/ HandleDeleteClick
  \/ HandleDeleteCancel
  \/ HandleDeleteConfirm
  \/ \E found \in BOOLEAN : DeleteSuccess(found)
  \/ DeleteFailure
  \/ \E value \in SearchTexts : TableHandleSearchChange(value)
  \/ TableDebounceFire
  \/ TableClearSearch
  \/ Unmount
  \/ \E d \in TimeSteps : Tick(d)

Spec == Init /\ [][Next]_vars

-----------------------------------------------------------------------------
(* Properties of the search / filter / pagination specification *)

\* the committed search text of the mounted component, '' when there is none
CommittedSearch ==
  IF component = "page" THEN GetOrEmpty(filters.search) ELSE searchQuery

\* the query string u shows exactly the filters f and the page: a field
\* appears when f holds a non-default value for it, and then reads back as
\* that value; page appears when it is greater than 1
UrlEncodes(u, f, page) ==
  /\ IsPresent(u.search) <=> (IsPresent(f.search) /\ f.search[1] # "")
  /\ IsPresent(u.search) => u.search[1] = f.search[1]
  /\ IsPresent(u.category) <=> (IsPresent(f.category) /\ f.category[1] # "")
  /\ IsPresent(u.category) => u.category[1] = f.category[1]
  /\ IsPresent(u.minPrice) <=> IsPresent(f.minPrice)
  /\ IsPresent(u.minPrice) => ParseFloat(u.minPrice[1]) = f.minPrice[1]
  /\ IsPresent(u.maxPrice) <=> IsPresent(f.maxPrice)
  /\ IsPresent(u.maxPrice) => ParseFloat(u.maxPrice[1]) = f.maxPrice[1]
  /\ IsPresent(u.inStock) <=> f.inStock = Some(TRUE)
  /\ IsPresent(u.inStock) => u.inStock[1] = "true"
  /\ IsPresent(u.page) <=> Gt(page, 1)
  /\ IsPresent(u.page) => ParseInt(u.page[1]) = page

\* C1: in a burst of search-text changes, each less than 300 ms after the
\* previous one, no commit happens while a change is less than 300 ms old,
\* exactly one commit happens 300 ms after the last change, and it commits the
\* text of the last change (FilterSet.search on the page, the argument of
\* onSearch in ProductsTable), never an earlier text of the burst
C1_BurstCommitsLastTextOnce ==
  (mounted /\ typed # <<>>) =>
    /\ commits <= 1
    /\ IsPresent(debounceTimeout) =>
         /\ commits = 0
         /\ sinceChange + debounceTimeout[1].remaining = DEBOUNCE_MS
         /\ debounceTimeout[1].value = LastTyped
    /\ debounceTimeout = Absent =>
         /\ commits = 1
         /\ lastCommit = Some([text |-> LastTyped, at |-> DEBOUNCE_MS])
    /\ (debounceTimeout = Absent /\ lastOp = "commit") =>
         IF component = "page" THEN filters.search = Some(LastTyped)
         ELSE onSearchArg = Some(LastTyped)

\* a burst of several changes ending in another text than it began with has
\* been committed on the products page
C1_Witness ==
  /\ component = "page" /\ mounted
  /\ Len(typed) >= 2 /\ typed[1] # LastTyped
  /\ debounceTimeout = Absent /\ lastOp = "commit" /\ commits = 1
  /\ filters.search = Some(LastTyped)

\* C3: after every handler that changes the canonical state (debounced
\* commit, clearSearch, filter submission, page change, step-back after a
\* delete) the URL query string encodes exactly the current filters and page
C3_UrlEncodesState ==
  (component = "page" /\ mounted
     /\ lastOp \in {"commit", "clear", "filters", "page", "stepBack"})
  => UrlEncodes(url, filters, currentPage)

\* a step in which the debounce timer of the products page runs its callback
CommitStep ==
  /\ component = "page" /\ mounted
  /\ TimerDue /\ debounceTimeout' = Absent

\* C4: a debounced commit sets search to the typed text and the page to 1 and
\* leaves category, minPrice, maxPrice and inStock as they are in the state
\* at the moment the timer fires
C4_CommitKeepsPanelFields ==
  [][CommitStep =>
       /\ filters'.search = Some(debounceTimeout[1].value)
       /\ currentPage' = 1
       /\ filters'.category = filters.category
       /\ filters'.minPrice = filters.minPrice
       /\ filters'.maxPrice = filters.maxPrice
       /\ filters'.inStock = filters.inStock]_vars

\* C5: once clearSearch has run the committed search is absent, and stays
\* absent until the next search-text change; right after it the raw text is
\* empty and the page is 1
C5_ClearedStaysAbsent ==
  cleared =>
    /\ CommittedSearch = ""
    /\ component = "page" => filters.search = Absent
    /\ lastOp = "clear" =>
         /\ localSearchValue = ""
         /\ component = "page" => currentPage = 1

\* C6: whenever no debounce timer is pending, the raw search text equals the
\* committed search (empty text and absent search counting as equal)
C6_RawEqualsCommittedWhenIdle ==
  (mounted /\ phase = "ready" /\ debounceTimeout = Absent)
  => localSearchValue = CommittedSearch

\* C7: submitting the filter panel (Apply filters or Clear) replaces category,
\* minPrice, maxPrice and inStock with the submitted values, leaves the
\* committed search unchanged, sets the page to 1 and rewrites the URL, all
\* in the step of the submission
C7_SubmitReplacesPanelFields ==
  (component = "page" /\ lastOp = "filters") =>
    /\ filters.category = submitted[1].panel.category
    /\ filters.minPrice = submitted[1].panel.minPrice
    /\ filters.maxPrice = submitted[1].panel.maxPrice
    /\ filters.inStock = submitted[1].panel.inStock
    /\ filters.search = submitted[1].search
    /\ currentPage = 1
    /\ mounted => UrlEncodes(url, filters, 1)

\* a panel with a category ticked was applied on page 2 of a search
C7_Witness ==
  /\ component = "page" /\ lastOp = "filters"
  /\ submitted[1].page = 2
  /\ TruthyStr(submitted[1].search)
  /\ filters.category = Some("Books")
  /\ filters.search = submitted[1].search
  /\ currentPage = 1

-----------------------------------------------------------------------------
(* Round trip through the query string: updateUrlParams, then a fresh mount *)

\* prices a FilterSet of the page can hold: typed in the panel or parsed from
\* the query string
RtPrices == {0, 5, 120, -3, NaN}

\* the FilterSets the page can hold
RtFilterSets ==
  [search   : {Absent, Some(""), Some("a")},
   category : {Absent, Some("Books")},
   minPrice : {Absent} \cup {Some(n) : n \in RtPrices},
   maxPrice : {Absent} \cup {Some(n) : n \in {0, 120}},
   inStock  : {Absent, Some(TRUE)}]

\* largest page number of the round trip
MaxRtPage == 12

\* the page holds any FilterSet and any page number
InitRoundTrip ==
  /\ component = "page"
  /\ mounted = TRUE
  /\ phase = "ready"
  /\ setterStable = TRUE
  /\ url = EmptyUrl
  /\ filters \in RtFilterSets
  /\ currentPage \in 1..MaxRtPage
  /\ searchQuery = ""
  /\ localSearchValue = GetOrEmpty(filters.search)
  /\ debounceTimeout = Absent
  /\ hscFilters = EmptyFilters
  /\ localFilters = filters
  /\ productsData = Absent
  /\ productToDelete = Absent
  /\ deleteMutation = Absent
  /\ onSearchArg = Absent
  /\ NoHistory
  /\ NoCache
  /\ rt = Absent
  /\ NoFetch
  /\ NoModal
  /\ SignedIn

\* updateUrlParams(filters, currentPage): the state is published
RtPublish ==
  /\ phase = "ready" /\ rt = Absent
  /\ url' = UrlParamsOf(filters, currentPage)
  /\ rt' = Some([filters |-> filters, page |-> currentPage])
  /\ lastOp' = "publish"
  /\ UNCHANGED <<component, mounted, phase, setterStable, filters,
                 currentPage, localSearchValue, debounceTimeout, hscFilters,
                 localFilters, productsData, productToDelete, deleteMutation,
                 used, submitted>>
  /\ UNCHANGED <<tableVars, histVars, cacheVars, fetchVars, modalVars, authVars>>

\* the page is opened again at the published URL: first render of a new
\* Products component (useState initial values)
RtReload ==
  /\ phase = "ready" /\ lastOp = "publish"
  /\ phase' = "rendered"
  /\ filters' = EmptyFilters
  /\ currentPage' = 1
  /\ localSearchValue' = ""
  /\ localFilters' = EmptyFilters
  /\ lastOp' = "mount"
  /\ UNCHANGED <<component, mounted, setterStable, url, debounceTimeout,
                 hscFilters, productsData, productToDelete, deleteMutation,
                 used, submitted, rt>>
  /\ UNCHANGED <<tableVars, histVars, cacheVars, fetchVars, modalVars, authVars>>

NextRoundTrip ==
  \/ RtPublish
  \/ RtReload
  \/ InitializeFromUrl

SpecRoundTrip == InitRoundTrip /\ [][NextRoundTrip]_vars

\* the mount effect has run on a published URL
RoundTripDone == IsPresent(rt) /\ phase = "ready" /\ lastOp = "init"

\* an empty search text reads back as no search
SearchReadBack(o) == IF o = Some("") THEN Absent ELSE o

\* C2 (as stated): building the query string with updateUrlParams and running
\* the mount-time initialization on it yields the same FilterSet and page
C2_RoundTripExact ==
  RoundTripDone => (filters = rt[1].filters /\ currentPage = rt[1].page)

\* C2 (amended): the round trip yields the same page and the same FilterSet,
\* except that an empty search text comes back as an absent search
C2_RoundTripUpToEmptySearch ==
  RoundTripDone =>
    /\ filters = [rt[1].filters EXCEPT !.search = SearchReadBack(@)]
    /\ currentPage = rt[1].page

\* a FilterSet with every field present, on a page beyond the first, came back
C2_Witness ==
  /\ RoundTripDone
  /\ \A k \in DOMAIN filters : IsPresent(rt[1].filters[k])
  /\ rt[1].filters.search # Some("")
  /\ rt[1].page > 9
  /\ filters = rt[1].filters
  /\ currentPage = rt[1].page

-----------------------------------------------------------------------------
(* The cached product lists: the query cache of hooks/useProducts and the   *)
(* product store                                                             *)

\* everything the search / filter / pagination part owns
syncVars == <<mounted, phase, setterStable, url, filters, currentPage,
              localSearchValue, debounceTimeout, hscFilters, localFilters,
              productsData, productToDelete, deleteMutation, searchQuery,
              onSearchArg, lastOp, typed, sinceChange, commits, lastCommit,
              cleared, submitted, rt, fetching, issued, isCreateModalOpen,
              createMutation, form, authVars>>

\* product ids, and the versions of a product's fields
Ids == {"p1", "p2"}
Vers == {1, 2}
Products == [id : Ids, ver : Vers]

\* the list queries in the cache: productKeys.list(filters, page, limit)
ListKeys == {"list1", "list2"}

\* successful mutations in one behaviour
MaxMutations == 2

HasId(products, id) == \E i \in DOMAIN products : products[i].id = id

\* the ids of a list are distinct
DistinctIds(products) ==
  \A i, j \in DOMAIN products : products[i].id = products[j].id => i = j

\* the pages of products the server can answer a list query with
\* (response.data): records not yet edited, and a total that counts the
\* records of the page or one more
ServerPages ==
  {[data |-> d, total |-> Len(d) + more] :
     d \in {s \in UNION {[1..n -> [id : Ids, ver : {1}]] : n \in 0..2} :
              DistinctIds(s)},
     more \in {0, 1}}

\* an id the server gives to a new product is in no cached list
FreshId(id) ==
  /\ \A k \in ListKeys :
       IsPresent(queryCache[k]) => ~HasId(queryCache[k][1].data, id)
  /\ ~HasId(storeProducts, id)

\* a prepend that leaves the pagination as it was
PrependToList_KeepTotal(oldData, newProduct) ==
  IF oldData = Absent THEN oldData
  ELSE Some([data  |-> <<newProduct>> \o oldData[1].data,
             total |-> oldData[1].total])

\* useCreateProduct: the updater of setQueriesData
PrependToList(oldData, newProduct) ==
  IF oldData = Absent THEN oldData
  ELSE Some([data  |-> <<newProduct>> \o oldData[1].data,
             total |-> oldData[1].total + 1])

\* products.map(product => product._id === id ? updated : product)
MapReplace_MoveToFront(products, id, updated) ==
  IF HasId(products, id)
  THEN <<updated>> \o SelectSeq(products, LAMBDA p : p.id # id)
  ELSE products

\* products.map(product => product._id === id ? updated : product)
MapReplace(products, id, updated) ==
  [i \in DOMAIN products |->
     IF products[i].id = id THEN updated ELSE products[i]]

\* useUpdateProduct: the updater of setQueriesData
ReplaceInList(oldData, updatedProduct) ==
  IF oldData = Absent THEN oldData
  ELSE Some([data  |-> MapReplace(oldData[1].data, updatedProduct.id,
                                  updatedProduct),
             total |-> oldData[1].total])

\* a remove that does not clamp the total
RemoveFromList_Unclamped(oldData, deletedId) ==
  IF oldData = Absent THEN oldData
  ELSE Some([data  |-> SelectSeq(oldData[1].data, LAMBDA p : p.id # deletedId),
             total |-> oldData[1].total - 1])

\* useDeleteProduct: the updater of setQueriesData
RemoveFromList(oldData, deletedId) ==
  IF oldData = Absent THEN oldData
  ELSE Some([data  |-> SelectSeq(oldData[1].data, LAMBDA p : p.id # deletedId),
             total |-> MathMax(0, oldData[1].total - 1)])

\* the cache as it was when the last patch was applied
Snapshot(kind, product) ==
  Some([kind |-> kind, product |-> product, lists |-> queryCache,
        details |-> detailCache, products |-> storeProducts,
        current |-> storeCurrent, total |-> storeTotal])

\* useProducts: the query of a list key starts to fetch (mount, refetch)
FetchList(k) ==
  /\ component = "query"
  /\ k \notin pending
  /\ pending' = pending \cup {k}
  /\ UNCHANGED <<queryCache, detailCache, storeProducts, storeCurrent,
                 storeTotal, lastPatch, component, used>>
  /\ UNCHANGED syncVars
  /\ UNCHANGED failVars

\* useProducts.queryFn resolved: the entry is replaced by the server's page
FetchListSuccess(k, r) ==
  /\ component = "query"
  /\ k \in pending
  /\ pending' = pending \ {k}
  /\ queryCache' = [queryCache EXCEPT ![k] = Some(r)]
  /\ lastPatch' = Absent
  /\ UNCHANGED <<detailCache, storeProducts, storeCurrent, storeTotal,
                 component, used>>
  /\ UNCHANGED syncVars
  /\ queryError' = queryError \ {k}
  /\ UNCHANGED <<storeLoading, storeError, storeInFlight, reported>>

\* a failed fetch that drops the data the entry held
DataAfterError_Dropped(oldData) == Absent

\* the data of an entry whose fetch failed: the query keeps its last data
DataAfterError(oldData) == oldData

\* useProducts.queryFn threw: the query is in the error state
FetchListError(k) ==
  /\ component = "query"
  /\ k \in pending
  /\ pending' = pending \ {k}
  /\ queryCache' = [queryCache EXCEPT ![k] = DataAfterError(@)]
  /\ queryError' = queryError \cup {k}
  /\ UNCHANGED <<detailCache, storeProducts, storeCurrent, storeTotal,
                 lastPatch, component, used>>
  /\ UNCHANGED <<storeLoading, storeError, storeInFlight, reported>>
  /\ UNCHANGED syncVars

\* useCreateProduct.onSuccess; active: the list queries that are observed
OnCreateSuccess(newProduct, active) ==
  /\ component = "query"
  /\ used < MaxMutations
  /\ FreshId(newProduct.id)
  /\ pending' = pending \cup active
  /\ queryCache' = [k \in ListKeys |-> PrependToList(queryCache[k], newProduct)]
  /\ lastPatch' = Snapshot("create", newProduct)
  /\ used' = used + 1
  /\ UNCHANGED <<detailCache, storeProducts, storeCurrent, storeTotal,
                 component>>
  /\ UNCHANGED syncVars
  /\ UNCHANGED failVars

\* useUpdateProduct.onSuccess
OnUpdateSuccess(updatedProduct) ==
  /\ component = "query"
  /\ used < MaxMutations
  /\ detailCache' = [detailCache EXCEPT ![updatedProduct.id] =
                       Some(updatedProduct)]
  /\ queryCache' = [k \in ListKeys |->
                      ReplaceInList(queryCache[k], updatedProduct)]
  /\ lastPatch' = Snapshot("update", updatedProduct)
  /\ used' = used + 1
  /\ UNCHANGED <<storeProducts, storeCurrent, storeTotal, pending, component>>
  /\ UNCHANGED syncVars
  /\ UNCHANGED failVars

\* useDeleteProduct.onSuccess
OnDeleteSuccess(deletedId) ==
  /\ component = "query"
  /\ used < MaxMutations
  /\ detailCache' = [detailCache EXCEPT ![deletedId] = Absent]
  /\ queryCache' = [k \in ListKeys |-> RemoveFromList(queryCache[k], deletedId)]
  /\ lastPatch' = Snapshot("delete", [id |-> deletedId, ver |-> 1])
  /\ used' = used + 1
  /\ UNCHANGED <<storeProducts, storeCurrent, storeTotal, pending, component>>
  /\ UNCHANGED syncVars
  /\ UNCHANGED failVars

\* useProduct.queryFn resolved: the single-item entry of an id
FetchProductSuccess(product) ==
  /\ component = "query"
  /\ detailCache[product.id] # Some(product)
  /\ detailCache' = [detailCache EXCEPT ![product.id] = Some(product)]
  /\ lastPatch' = Absent
  /\ UNCHANGED <<queryCache, storeProducts, storeCurrent, storeTotal, pending,
                 component, used>>
  /\ UNCHANGED syncVars
  /\ UNCHANGED failVars

\* the product store is in use: by itself, or under the store's page
StoreInUse == component \in {"store", "storePage"}

\* useProductStore.fetchProducts, the request succeeded
StoreFetchProducts(r) ==
  /\ StoreInUse
  /\ "fetchProducts" \in storeInFlight
  /\ storeInFlight' = storeInFlight \ {"fetchProducts"}
  /\ storeLoading' = FALSE
  /\ storeProducts' = r.data
  /\ storeTotal' = r.total
  /\ lastPatch' = Absent
  /\ UNCHANGED <<queryCache, detailCache, storeCurrent, pending, component,
                 used>>
  /\ UNCHANGED syncVars
  /\ UNCHANGED <<queryError, storeError, reported>>

\* useProductStore.fetchProduct, the request succeeded
StoreFetchProduct(product) ==
  /\ component = "store"
  /\ "fetchProduct" \in storeInFlight
  /\ storeInFlight' = storeInFlight \ {"fetchProduct"}
  /\ storeLoading' = FALSE
  /\ storeCurrent' = Some(product)
  /\ lastPatch' = Absent
  /\ UNCHANGED <<queryCache, detailCache, storeProducts, storeTotal, pending,
                 component, used>>
  /\ UNCHANGED syncVars
  /\ UNCHANGED <<queryError, storeError, reported>>

\* useProductStore.createProduct, the request succeeded
StoreCreateProduct(newProduct) ==
  /\ component = "store"
  /\ "createProduct" \in storeInFlight
  /\ storeInFlight' = storeInFlight \ {"createProduct"}
  /\ storeLoading' = FALSE
  /\ used < MaxMutations
  /\ FreshId(newProduct.id)
  /\ storeProducts' = <<newProduct>> \o storeProducts
  /\ lastPatch' = Snapshot("create", newProduct)
  /\ used' = used + 1
  /\ UNCHANGED <<queryCache, detailCache, storeCurrent, storeTotal, pending,
                 component>>
  /\ UNCHANGED syncVars
  /\ UNCHANGED <<queryError, storeError, reported>>

\* useProductStore.updateProduct(id, productData), the request succeeded with
\* the updated product of that id
StoreUpdateProduct(id, updated) ==
  /\ component = "store"
  /\ "updateProduct" \in storeInFlight
  /\ storeInFlight' = storeInFlight \ {"updateProduct"}
  /\ storeLoading' = FALSE
  /\ used < MaxMutations
  /\ updated.id = id
  /\ storeProducts' = MapReplace(storeProducts, id, updated)
  /\ storeCurrent' = Some(updated)
  /\ lastPatch' = Snapshot("update", updated)
  /\ used' = used + 1
  /\ UNCHANGED <<queryCache, detailCache, storeTotal, pending, component>>
  /\ UNCHANGED syncVars
  /\ UNCHANGED <<queryError, storeError, reported>>

\* useProductStore.deleteProduct(id), the request succeeded
StoreDeleteProduct(id) ==
  /\ component = "store"
  /\ "deleteProduct" \in storeInFlight
  /\ storeInFlight' = storeInFlight \ {"deleteProduct"}
  /\ storeLoading' = FALSE
  /\ used < MaxMutations
  /\ storeProducts' = SelectSeq(storeProducts, LAMBDA p : p.id # id)
  /\ storeCurrent' = Absent
  /\ lastPatch' = Snapshot("delete", [id |-> id, ver |-> 1])
  /\ used' = used + 1
  /\ UNCHANGED <<queryCache, detailCache, storeTotal, pending, component>>
  /\ UNCHANGED syncVars
  /\ UNCHANGED <<queryError, storeError, reported>>

\* the async actions of the product store
StoreKinds ==
  {"fetchProducts", "fetchProduct", "createProduct", "updateProduct",
   "deleteProduct"}

MutationKinds == {"createProduct", "updateProduct", "deleteProduct"}

\* how a request fails: the envelope of an HTTP 2xx response has success
\* false, the status is outside 2xx, or there is no response at all; message
\* is the message of the server's body, empty when it has none
Failures ==
  { [via |-> "envelope", message |-> "SKU already exists"],
    [via |-> "envelope", message |-> ""],
    [via |-> "status", message |-> "SKU already exists"] }

\* response.message || 'Failed to ...'
Fallback(kind) ==
  CASE kind = "fetchProducts" -> "Failed to fetch products"
    [] kind = "fetchProduct" -> "Failed to fetch product"
    [] kind = "createProduct" -> "Failed to create product"
    [] kind = "updateProduct" -> "Failed to update product"
    [] kind = "deleteProduct" -> "Failed to delete product"
    [] kind = "searchProducts" -> "Search failed"

\* error.message of what the catch block or onError receives: the Error
\* thrown for the envelope, or the error axios rejected with
ErrorMessage(kind, failure) ==
  CASE failure.via = "envelope" ->
         IF failure.message # "" THEN failure.message ELSE Fallback(kind)
    [] failure.via = "status" -> "Request failed with status code 409"

\* useCreateProduct / useUpdateProduct / useDeleteProduct: the request failed;
\* onError shows the message, no onSuccess runs
OnMutationError(kind, failure) ==
  /\ component = "query"
  /\ used < MaxMutations
  /\ reported' = Some(ErrorMessage(kind, failure))
  /\ used' = used + 1
  /\ UNCHANGED <<queryCache, detailCache, storeProducts, storeCurrent,
                 storeTotal, pending, lastPatch, component>>
  /\ UNCHANGED <<queryError, storeLoading, storeError, storeInFlight>>
  /\ UNCHANGED syncVars

\* an async action of the store starts: set({ isLoading: true, error: null })
StoreRequest(kind) ==
  /\ component = "store"
  /\ kind \notin storeInFlight
  /\ kind \in MutationKinds => used < MaxMutations
  /\ storeInFlight' = storeInFlight \cup {kind}
  /\ storeLoading' = TRUE
  /\ storeError' = Absent
  /\ UNCHANGED <<queryCache, detailCache, storeProducts, storeCurrent,
                 storeTotal, pending, lastPatch, component, used>>
  /\ UNCHANGED <<queryError, reported>>
  /\ UNCHANGED syncVars

\* the catch block of an async action of the store; the mutations rethrow
\* and their caller shows the message
StoreFailure(kind, failure) ==
  /\ StoreInUse
  /\ kind \in storeInFlight
  /\ kind \in MutationKinds => used < MaxMutations
  /\ storeInFlight' = storeInFlight \ {kind}
  /\ storeLoading' = FALSE
  /\ storeError' = Some(ErrorMessage(kind, failure))
  /\ reported' = IF kind \in MutationKinds
                 THEN Some(ErrorMessage(kind, failure)) ELSE reported
  /\ used' = IF kind \in MutationKinds THEN used + 1 ELSE used
  /\ UNCHANGED <<queryCache, detailCache, storeProducts, storeCurrent,
                 storeTotal, pending, lastPatch, component>>
  /\ UNCHANGED queryError
  /\ UNCHANGED syncVars

\* an empty query cache, or the store as created
InitCache ==
  /\ component \in {"query", "store"}
  /\ mounted = TRUE
  /\ phase = "ready"
  /\ setterStable = TRUE
  /\ url = EmptyUrl
  /\ filters = EmptyFilters
  /\ currentPage = 1
  /\ searchQuery = ""
  /\ localSearchValue = ""
  /\ debounceTimeout = Absent
  /\ hscFilters = EmptyFilters
  /\ localFilters = EmptyFilters
  /\ productsData = Absent
  /\ productToDelete = Absent
  /\ deleteMutation = Absent
  /\ onSearchArg = Absent
  /\ NoHistory
  /\ rt = Absent
  /\ NoFetch
  /\ NoModal
  /\ SignedIn
  /\ queryCache = [k \in ListKeys |-> Absent]
  /\ detailCache = [id \in Ids |-> Absent]
  /\ storeProducts = <<>>
  /\ storeCurrent = Absent
  /\ storeTotal = 0
  /\ pending = {}
  /\ lastPatch = Absent
  /\ NoFailure

NextCache ==
  \/ \E k \in ListKeys : FetchList(k)
  \/ \E k \in ListKeys, r \in ServerPages : FetchListSuccess(k, r)
  \/ \E p \in Products : FetchProductSuccess(p)
  \/ \E p \in Products, active \in SUBSET ListKeys : OnCreateSuccess(p, active)
  \/ \E p \in Products : OnUpdateSuccess(p)
  \/ \E id \in Ids : OnDeleteSuccess(id)
  \/ \E r \in ServerPages : StoreFetchProducts(r)
  \/ \E p \in Products : StoreFetchProduct(p)
  \/ \E p \in Products : StoreCreateProduct(p)
  \/ \E id \in Ids, p \in Products : StoreUpdateProduct(id, p)
  \/ \E id \in Ids : StoreDeleteProduct(id)
  \/ \E kind \in StoreKinds : storeInFlight = {} /\ StoreRequest(kind)

SpecCache == InitCache /\ [][NextCache]_vars


\* a patch of the given kind was the last thing applied to the cache
Patched(kind) == IsPresent(lastPatch) /\ lastPatch[1].kind = kind

\* C8: after a successful delete was applied to the query cache, no cached
\* list entry holds a record with the deleted id, and the total of every
\* entry the patch touched is its previous total minus 1, never below 0
C8_DeleteRemovesEverywhere ==
  (component = "query" /\ Patched("delete")) =>
    \A k \in ListKeys :
      IF IsPresent(lastPatch[1].lists[k])
      THEN /\ IsPresent(queryCache[k])
           /\ ~HasId(queryCache[k][1].data, lastPatch[1].product.id)
           /\ queryCache[k][1].total =
                (IF lastPatch[1].lists[k][1].total >= 1
                 THEN lastPatch[1].lists[k][1].total - 1 ELSE 0)
           /\ queryCache[k][1].total >= 0
      ELSE queryCache[k] = Absent

\* a delete removed the id from a list that held it, next to a list whose
\* total was already 0
C8_Witness ==
  /\ component = "query" /\ Patched("delete")
  /\ \E k \in ListKeys :
       /\ IsPresent(lastPatch[1].lists[k])
       /\ HasId(lastPatch[1].lists[k][1].data, lastPatch[1].product.id)
       /\ Len(lastPatch[1].lists[k][1].data) = 2
       /\ Len(queryCache[k][1].data) = 1
       /\ queryCache[k][1].total = lastPatch[1].lists[k][1].total - 1
  /\ \E k \in ListKeys :
       /\ IsPresent(lastPatch[1].lists[k])
       /\ lastPatch[1].lists[k][1].total = 0
       /\ queryCache[k][1].total = 0

\* the list holds the updated product wherever it held the id, and every
\* other record where it was
ReplacedInPlace(before, after, updated) ==
  /\ Len(after) = Len(before)
  /\ \A i \in DOMAIN before :
       after[i] = (IF before[i].id = updated.id THEN updated ELSE before[i])

\* C9: after a successful update was applied, every cached occurrence of the
\* id (in every list and in the single-item entry) is the server's product,
\* at its previous position, and records with other ids are unchanged
C9_UpdateReplacesInPlace ==
  Patched("update") =>
    IF component = "query"
    THEN /\ detailCache[lastPatch[1].product.id] = Some(lastPatch[1].product)
         /\ \A id \in Ids \ {lastPatch[1].product.id} :
              detailCache[id] = lastPatch[1].details[id]
         /\ \A k \in ListKeys :
              IF IsPresent(lastPatch[1].lists[k])
              THEN /\ IsPresent(queryCache[k])
                   /\ ReplacedInPlace(lastPatch[1].lists[k][1].data,
                                      queryCache[k][1].data,
                                      lastPatch[1].product)
              ELSE queryCache[k] = Absent
    ELSE /\ storeCurrent = Some(lastPatch[1].product)
         /\ ReplacedInPlace(lastPatch[1].products, storeProducts,
                            lastPatch[1].product)

\* an update changed the second record of a list of two, in the query cache
\* or in the store
C9_Witness ==
  /\ Patched("update")
  /\ LET before == IF component = "query"
                   THEN (IF IsPresent(lastPatch[1].lists["list1"])
                         THEN lastPatch[1].lists["list1"][1].data ELSE <<>>)
                   ELSE lastPatch[1].products
         after  == IF component = "query"
                   THEN (IF IsPresent(queryCache["list1"])
                         THEN queryCache["list1"][1].data ELSE <<>>)
                   ELSE storeProducts
     IN /\ Len(before) = 2
        /\ before[2].id = lastPatch[1].product.id
        /\ before[2] # lastPatch[1].product
        /\ after[2] = lastPatch[1].product
        /\ after[1] = before[1]

-----------------------------------------------------------------------------
(* Malformed query strings *)

\* a text that is a decimal integer: an optional sign, then digits only
IsNumericText(s) ==
  LET body == IF s # <<>> /\ Head(s) \in {"-", "+"} THEN Tail(s) ELSE s
  IN body # <<>> /\ \A i \in 1..Len(body) : IsDigit(body[i])

\* the page has just been initialized from the query string
JustInitialized == component = "page" /\ phase = "ready" /\ lastOp = "init"

\* C12: after initialization from the query string, a non-numeric minPrice or
\* maxPrice parameter leaves that field absent, an inStock parameter other
\* than 'true' leaves inStock absent, and a non-numeric page parameter
\* yields page 1
C12_MalformedUrlYieldsDefaults ==
  JustInitialized =>
    /\ (IsPresent(url.minPrice) /\ ~IsNumericText(url.minPrice[1])
          => filters.minPrice = Absent)
    /\ (IsPresent(url.maxPrice) /\ ~IsNumericText(url.maxPrice[1])
          => filters.maxPrice = Absent)
    /\ (url.inStock # Some("true") => filters.inStock = Absent)
    /\ (IsPresent(url.page) /\ ~IsNumericText(url.page[1]) => currentPage = 1)


-----------------------------------------------------------------------------
(* The products page together with the query cache of its list queries *)

\* the cache holds an entry for key k
InCache(c, k) == c # <<>> /\ k \in DOMAIN c

\* cache c with the entry of key k set to e
WithEntry(c, k, e) ==
  [j \in (IF c = <<>> THEN {} ELSE DOMAIN c) \cup {k} |-> IF j = k THEN e ELSE c[j]]

\* totals the server reports for a list
PagingTotals == {1, 11, 51}

\* number of records on page `page` of a list of `total` records
PageLength(total, page) ==
  LET rest == total - (page - 1) * itemsPerPage
  IN IF IsNaN(page) \/ rest < 0 THEN 0
     ELSE IF rest > itemsPerPage THEN itemsPerPage ELSE rest

\* the page of the server's answer for key (f, page) when the list has total records
ServerList(total, page) == [len |-> PageLength(total, page), total |-> total]

\* the search 'a' was looked at earlier in the session and matched one product
SearchA == [EmptyFilters EXCEPT !.search = Some("a")]

\* caches a mount of the page can find: empty, or the entry of an earlier visit
WarmCaches ==
  { <<>>, WithEntry(<<>>, QueryKey(SearchA, 1), ServerList(1, 1)) }

\* a query that fetches again as soon as it has delivered
FetchingAfterAnswer_Again == TRUE

\* isFetching once the answer is stored: the data is fresh for staleTime and
\* nothing refetches it
FetchingAfterAnswer == FALSE

\* the list request of the current key is answered: the entry is written
ListFetched(total) ==
  /\ PageReady /\ Idle
  /\ fetching
  /\ LET e == ServerList(total, currentPage)
     IN /\ productsData' = Some(e)
        /\ queryCache' = WithEntry(queryCache, QueryKey(filters, currentPage), e)
  /\ fetching' = FetchingAfterAnswer
  /\ UNCHANGED <<lastOp, used, issued>>
  /\ UNCHANGED <<component, mounted, phase, setterStable, url, filters,
                 currentPage, localSearchValue, debounceTimeout, hscFilters,
                 localFilters, productToDelete, deleteMutation>>
  /\ UNCHANGED <<detailCache, storeProducts, storeCurrent, storeTotal, pending,
                 lastPatch, failVars>>
  /\ UNCHANGED <<tableVars, histVars, modalVars, authVars, rt, submitted>>

\* the list request of the current key fails: the query keeps what it had
ListFailed ==
  /\ PageReady /\ Idle
  /\ fetching
  /\ fetching' = FALSE
  /\ UNCHANGED <<lastOp, used, issued>>
  /\ UNCHANGED <<component, mounted, phase, setterStable, localSearchValue,
                 debounceTimeout>>
  /\ UNCHANGED <<pageVars, tableVars, histVars, cacheVars, modalVars, authVars, rt, submitted>>

\* the delete succeeded: setQueriesData runs the updater on every list entry;
\* holders are the entries that hold the deleted record, the list whose row
\* was clicked among them
DeleteSuccessInCache(holders) ==
  /\ IsPresent(deleteMutation)
  /\ queryCache # <<>>
  /\ holders \subseteq {k \in DOMAIN queryCache : queryCache[k].len > 0}
  /\ LET clicked == QueryKey(deleteMutation[1].filters, deleteMutation[1].page)
     IN (clicked \in DOMAIN queryCache /\ queryCache[clicked].len > 0)
          => clicked \in holders
  /\ LET patched == [k \in DOMAIN queryCache |->
                       PatchedEntry(queryCache[k], k \in holders)]
         backKey == QueryKey(filters, StepBackPage(deleteMutation[1]))
         back == IF backKey \in DOMAIN patched THEN Some(patched[backKey])
                 ELSE Absent
     IN /\ DeleteResumes(QueryKey(filters, currentPage) \in holders, back)
        /\ queryCache' = patched
  /\ UNCHANGED <<detailCache, storeProducts, storeCurrent, storeTotal, pending,
                 lastPatch, failVars>>

-----------------------------------------------------------------------------
(* Creating a product from the products page (CreateProductModal) *)

\* createProductMutation.isPending: a create request is in flight
IsCreating == createMutation # <<>>

\* CreateProductModal: disabled={isSubmitting || createProductMutation.isPending}
\* on Cancel and on the submit button; isSubmitting holds while onSubmit
\* awaits the request
SubmitDisabled(isCreating) == isCreating

\* what the create modal leaves alone while it opens, closes and submits
createRest == <<component, mounted, phase, setterStable, localSearchValue,
                debounceTimeout, lastOp, submitted, rt, pageVars, tableVars,
                histVars, cacheVars, fetchVars, authVars>>

\* "Add product": setIsCreateModalOpen(true); the delete modal covers the
\* button while it is open
OpenCreateModal ==
  /\ PageReady /\ Idle
  /\ ~isCreateModalOpen /\ productToDelete = Absent
  /\ isCreateModalOpen' = TRUE
  /\ used < MaxGestures
  /\ used' = used + 1
  /\ UNCHANGED <<createMutation, form>>
  /\ UNCHANGED createRest

\* handleClose(): the X of the header is always enabled, Cancel is disabled
\* while the create is pending
CloseCreateModal ==
  /\ PageReady /\ Idle
  /\ isCreateModalOpen
  /\ isCreateModalOpen' = FALSE
  /\ used < MaxGestures
  /\ used' = used + 1
  /\ UNCHANGED <<createMutation, form>>
  /\ UNCHANGED createRest

\* onSubmit(data) up to its await: createProductMutation.mutateAsync(formData)
SubmitCreate ==
  /\ PageReady /\ Idle
  /\ isCreateModalOpen /\ ~SubmitDisabled(IsCreating)
  /\ createMutation' = Append(createMutation, "create")
  /\ used < MaxGestures
  /\ used' = used + 1
  /\ UNCHANGED <<isCreateModalOpen, form>>
  /\ UNCHANGED createRest

\* a cached list after the updater of useCreateProduct.onSuccess ran on it:
\* data: [newProduct, ...oldData.data], total: oldData.pagination.total + 1
CreatedEntry(e) == [len |-> e.len + 1, total |-> e.total + 1]

\* the create succeeded: onSuccess invalidates the lists, so the list the page
\* shows is fetched again, and patches every cached list; onSubmit then
\* closes the modal
CreateSuccess ==
  /\ component = "page" /\ phase = "ready" /\ Idle
  /\ IsCreating
  /\ createMutation' = Tail(createMutation)
  /\ queryCache' = IF queryCache = <<>> THEN queryCache
                   ELSE [k \in DOMAIN queryCache |-> CreatedEntry(queryCache[k])]
  /\ productsData' = IF productsData = Absent THEN Absent
                     ELSE Some(CreatedEntry(productsData[1]))
  /\ fetching' = (mounted \/ fetching)
  /\ isCreateModalOpen' = IF mounted THEN FALSE ELSE isCreateModalOpen
  /\ UNCHANGED <<component, mounted, phase, setterStable, localSearchValue,
                 debounceTimeout, lastOp, submitted, rt, used, url, filters,
                 currentPage, hscFilters, localFilters, productToDelete,
                 deleteMutation, issued, form>>
  /\ UNCHANGED <<tableVars, histVars, detailCache, storeProducts,
                 storeCurrent, storeTotal, pending, lastPatch, failVars,
                 authVars>>

\* the create failed: onError shows the message, the modal stays open
CreateFailure(failure) ==
  /\ component = "page" /\ phase = "ready" /\ Idle
  /\ IsCreating
  /\ createMutation' = Tail(createMutation)
  /\ reported' = Some(ErrorMessage("createProduct", failure))
  /\ UNCHANGED <<component, mounted, phase, setterStable, localSearchValue,
                 debounceTimeout, lastOp, submitted, rt, used,
                 isCreateModalOpen, form>>
  /\ UNCHANGED <<pageVars, tableVars, histVars, queryCache, detailCache,
                 storeProducts, storeCurrent, storeTotal, pending, lastPatch,
                 queryError, storeLoading, storeError, storeInFlight,
                 fetchVars, authVars>>

-----------------------------------------------------------------------------
(* The products page over the product store (pages/Products.tsx) *)

\* what the store's page leaves alone: the state of the query page, of the
\* table and of the query cache
storePageRest == <<component, mounted, setterStable, url, filters,
                   localSearchValue, debounceTimeout, hscFilters,
                   localFilters, productsData, productToDelete,
                   deleteMutation, searchQuery, onSearchArg, lastOp, typed,
                   sinceChange, commits, lastCommit, cleared, submitted,
                   queryCache, detailCache, pending, lastPatch, rt, fetching,
                   issued, isCreateModalOpen, createMutation, form,
                   queryError,
                   authVars>>

\* Math.ceil((pagination?.total || 0) / itemsPerPage)
StoreTotalPages == (storeTotal + itemsPerPage - 1) \div itemsPerPage

\* the page body is rendered: the component returns early while isLoading
StorePageShown ==
  component = "storePage" /\ mounted /\ phase = "ready" /\ ~storeLoading

\* the pages the pagination bar can set: Previous, Next, the numbered
\* buttons 1..Math.min(5, totalPages) and the last page when totalPages > 5
StorePageTargets ==
  (IF currentPage # 1 THEN {MathMax(1, currentPage - 1)} ELSE {})
    \cup (IF currentPage # StoreTotalPages
          THEN {MathMin(StoreTotalPages, currentPage + 1)} ELSE {})
    \cup 1..MathMin(5, StoreTotalPages)
    \cup (IF StoreTotalPages > 5 THEN {StoreTotalPages} ELSE {})

\* the answers of GET /products to the store's page: at most one record,
\* and a total of one page or of two
StorePageResults ==
  {[data |-> d, total |-> t] :
     d \in {<<>>, <<[id |-> "p1", ver |-> 1]>>}, t \in {1, 11}}

\* fetchProducts starts: set({ isLoading: true, error: null })
StoreFetchStarts ==
  /\ storeInFlight' = storeInFlight \cup {"fetchProducts"}
  /\ storeLoading' = TRUE
  /\ storeError' = Absent

\* useEffect(() => { loadProducts() }, [currentPage, fetchProducts]) on mount
StoreFetchEffect ==
  /\ component = "storePage" /\ mounted /\ phase = "rendered"
  /\ phase' = "ready"
  /\ StoreFetchStarts
  /\ UNCHANGED <<currentPage, used, storeProducts, storeCurrent, storeTotal,
                 reported>>
  /\ UNCHANGED storePageRest

\* setCurrentPage(page) from the pagination bar; the fetch effect runs again
\* because currentPage changed
StoreSetCurrentPage(page) ==
  /\ StorePageShown
  /\ Len(storeProducts) > 0
  /\ page \in StorePageTargets
  /\ page # currentPage
  /\ used < MaxGestures
  /\ used' = used + 1
  /\ currentPage' = page
  /\ StoreFetchStarts
  /\ UNCHANGED <<phase, storeProducts, storeCurrent, storeTotal, reported>>
  /\ UNCHANGED storePageRest

\* handleDelete, confirmed in window.confirm: deleteProduct starts
StoreHandleDelete ==
  /\ StorePageShown
  /\ Len(storeProducts) > 0
  /\ used < MaxGestures
  /\ used' = used + 1
  /\ storeInFlight' = storeInFlight \cup {"deleteProduct"}
  /\ storeLoading' = TRUE
  /\ storeError' = Absent
  /\ UNCHANGED <<phase, currentPage, storeProducts, storeCurrent, storeTotal,
                 reported>>
  /\ UNCHANGED storePageRest

\* handleDelete after its await: the store dropped the record, and the page
\* refreshes the list with fetchProducts
StoreHandleDeleteDone(id) ==
  /\ component = "storePage" /\ phase = "ready"
  /\ "deleteProduct" \in storeInFlight
  /\ HasId(storeProducts, id)
  /\ storeProducts' = SelectSeq(storeProducts, LAMBDA p : p.id # id)
  /\ storeCurrent' = Absent
  /\ storeInFlight' = (storeInFlight \ {"deleteProduct"})
                        \cup {"fetchProducts"}
  /\ storeLoading' = TRUE
  /\ storeError' = Absent
  /\ UNCHANGED <<phase, currentPage, used, storeTotal, reported>>
  /\ UNCHANGED storePageRest

\* handleDelete, the catch block: the store recorded the error and rethrew,
\* the page shows error.message
StoreHandleDeleteFailed(failure) ==
  /\ component = "storePage" /\ phase = "ready"
  /\ "deleteProduct" \in storeInFlight
  /\ storeInFlight' = storeInFlight \ {"deleteProduct"}
  /\ storeLoading' = FALSE
  /\ storeError' = Some(ErrorMessage("deleteProduct", failure))
  /\ reported' = Some(ErrorMessage("deleteProduct", failure))
  /\ UNCHANGED <<phase, currentPage, used, storeProducts, storeCurrent,
                 storeTotal>>
  /\ UNCHANGED storePageRest

\* the first render of either products page
InitPageCache ==
  /\ component \in {"page", "storePage"}
  /\ mounted = TRUE
  /\ phase = "rendered"
  /\ setterStable = TRUE
  /\ url \in IF component = "page"
             THEN {EmptyUrl, [EmptyUrl EXCEPT !.page = Some(<<"2">>)]}
             ELSE {EmptyUrl}
  /\ filters = EmptyFilters
  /\ currentPage = 1
  /\ searchQuery = ""
  /\ localSearchValue = ""
  /\ debounceTimeout = Absent
  /\ hscFilters = EmptyFilters
  /\ localFilters = EmptyFilters
  /\ productsData = Absent
  /\ productToDelete = Absent
  /\ deleteMutation = Absent
  /\ onSearchArg = Absent
  /\ NoHistory
  /\ rt = Absent
  /\ fetching = (component = "page")
  /\ issued = IF component = "page" THEN <<ListRequest(EmptyFilters, 1)>>
              ELSE <<>>
  /\ NoModal
  /\ SignedIn
  /\ queryCache \in IF component = "page" THEN WarmCaches ELSE {<<>>}
  /\ detailCache = <<>>
  /\ storeProducts = <<>>
  /\ storeCurrent = Absent
  /\ storeTotal = 0
  /\ pending = Absent
  /\ lastPatch = Absent
  /\ NoFailure

NextPageCache ==
  \/ InitializeFromUrl
  \/ HandleSearchChange("a")
  \/ DebounceFire
  \/ ClearSearch
  \/ Tick(DEBOUNCE_MS)
  \/ HandlePreviousPage
  \/ HandleNextPage
  \/ \E page \in 1..MaxPage : HandleGoToPage(page)
  \/ HandleGoToLastPage
  \/ \E total \in PagingTotals : ListFetched(total)
  \/ ListFailed
  \/ HandleDeleteClick
  \/ HandleDeleteCancel
  \/ HandleDeleteConfirm
  \/ \E holders \in SUBSET (IF queryCache = <<>> THEN {} ELSE DOMAIN queryCache) :
       DeleteSuccessInCache(holders)
  \/ DeleteFailure
  \/ OpenCreateModal
  \/ CloseCreateModal
  \/ SubmitCreate
  \/ CreateSuccess
  \/ \E failure \in Failures : CreateFailure(failure)
  \/ StoreFetchEffect
  \/ \E page \in 1..MaxPage : StoreSetCurrentPage(page)
  \/ \E r \in StorePageResults : StoreFetchProducts(r)
  \/ \E failure \in Failures : StoreFailure("fetchProducts", failure)
  \/ StoreHandleDelete
  \/ \E id \in Ids : StoreHandleDeleteDone(id)
  \/ \E failure \in Failures : StoreHandleDeleteFailed(failure)

SpecPageCache == InitPageCache /\ [][NextPageCache]_vars

\* a step that is a page request: previous, next, a numbered page, the last page
PageRequestStep ==
  \/ HandlePreviousPage
  \/ HandleNextPage
  \/ \E page \in 1..MaxPage : HandleGoToPage(page)
  \/ HandleGoToLastPage

\* C11: a page request leaves the current page at least 1 and at most
\* totalPages, the number of pages of the last known pagination info
C11_PageWithinTotalPages ==
  [][PageRequestStep => (currentPage' >= 1 /\ currentPage' <= totalPages)]_vars


-----------------------------------------------------------------------------
(* The list requests the page issues *)

\* what request q sends for parameter name: a parameter that is not in the
\* params object, or is undefined in it, is not sent
Sent(q, name) == IF name \in DOMAIN q.params THEN q.params[name] ELSE Absent

\* request q sends for parameter name what the key holds: v
Carries(q, name, v) == Sent(q, name) = v

\* C13: every list request issued for a query key carries each field of the
\* key: page, limit, search, category, minPrice, maxPrice and inStock
C13_RequestCarriesKey ==
  \A i \in DOMAIN issued :
    LET q == issued[i]
        f == q.key[1]
    IN /\ Carries(q, "page", q.key[2])
       /\ Carries(q, "limit", itemsPerPage)
       /\ Carries(q, "search", f.search)
       /\ Carries(q, "category", f.category)
       /\ Carries(q, "minPrice", f.minPrice)
       /\ Carries(q, "maxPrice", f.maxPrice)
       /\ Carries(q, "inStock", f.inStock)


\* C14: a change of the (FilterSet, page) state, the initialization from the
\* URL included, issues at most one list request, and that request is for
\* the query key of the new state
C14_OneFetchPerChange ==
  component = "page" =>
    /\ Len(issued) <= 1
    /\ \A i \in DOMAIN issued : issued[i].key = QueryKey(filters, currentPage)


-----------------------------------------------------------------------------
(* Termination of the fetches *)

\* timers run, effects run and every request is answered
SpecPageCacheFair ==
  /\ SpecPageCache
  /\ WF_vars(InitializeFromUrl)
  /\ WF_vars(Tick(DEBOUNCE_MS) \/ DebounceFire)
  /\ WF_vars((\E total \in PagingTotals : ListFetched(total)) \/ ListFailed)
  /\ WF_vars(DeleteFailure
             \/ \E holders \in SUBSET (IF queryCache = <<>> THEN {}
                                       ELSE DOMAIN queryCache) :
                  DeleteSuccessInCache(holders))
  /\ WF_vars(CreateSuccess \/ \E failure \in Failures : CreateFailure(failure))
  /\ WF_vars(StoreFetchEffect)
  /\ WF_vars((\E r \in StorePageResults : StoreFetchProducts(r))
             \/ \E failure \in Failures :
                  StoreFailure("fetchProducts", failure))
  /\ WF_vars((\E id \in Ids : StoreHandleDeleteDone(id))
             \/ \E failure \in Failures : StoreHandleDeleteFailed(failure))

\* C15: the user makes finitely many inputs and every request is answered;
\* then from some point on no list request is in flight and none is issued,
\* on the page over the query cache and on the page over the product store
C15_FetchesCease == <>[](~fetching /\ storeInFlight = {})

\* the user has used up the inputs, the last request was answered and the
\* page shows its list
C15_Witness ==
  /\ component = "page" /\ used = MaxGestures
  /\ ~fetching /\ IsPresent(productsData)
  /\ debounceTimeout = Absent /\ deleteMutation = Absent
  /\ lastOp = "commit"


-----------------------------------------------------------------------------
(* Requests that fail *)

NextFailure ==
  \/ \E k \in ListKeys : FetchList(k)
  \/ \E k \in ListKeys, r \in ServerPages : FetchListSuccess(k, r)
  \/ \E k \in ListKeys : FetchListError(k)
  \/ \E p \in Products : FetchProductSuccess(p)
  \/ \E kind \in MutationKinds, failure \in Failures :
       OnMutationError(kind, failure)
  \/ \E kind \in StoreKinds : StoreRequest(kind)
  \/ \E r \in ServerPages : StoreFetchProducts(r)
  \/ \E p \in Products : StoreFetchProduct(p)
  \/ \E kind \in StoreKinds, failure \in Failures : StoreFailure(kind, failure)

SpecFailure == InitCache /\ [][NextFailure]_vars

\* a step in which a list fetch fails: the query of a list key, or the
\* store's fetchProducts
ListFetchFails ==
  \/ \E k \in ListKeys : FetchListError(k)
  \/ \E failure \in Failures : StoreFailure("fetchProducts", failure)

\* C17: a list fetch that fails leaves the products and the pagination info
\* held before as they are, records the failure as an error and clears the
\* loading flag: the list query is in the error state and no longer
\* fetching, the store has its error set and isLoading false
C17_FetchFailureKeepsData ==
  [][ListFetchFails =>
       /\ queryCache' = queryCache
       /\ storeProducts' = storeProducts /\ storeTotal' = storeTotal
       /\ component = "query" =>
            \E k \in pending : k \in queryError' /\ k \notin pending'
       /\ component = "store" =>
            IsPresent(storeError') /\ storeLoading' = FALSE]_vars

\* a list query that holds products has failed to refetch
C17_Witness ==
  /\ component = "query"
  /\ \E k \in queryError :
       /\ k \notin pending
       /\ IsPresent(queryCache[k]) /\ Len(queryCache[k][1].data) > 0


\* C18: a create, update or delete request that fails, by a rejected request
\* or by an envelope with success false, changes no cached list entry, no
\* single-item entry and no stored product list, and what is reported to the
\* user is the message of the server's response
C18_MutationFailureReported ==
  [][\A kind \in MutationKinds, failure \in Failures :
       (OnMutationError(kind, failure) \/ StoreFailure(kind, failure)) =>
         /\ queryCache' = queryCache
         /\ detailCache' = detailCache
         /\ storeProducts' = storeProducts
         /\ failure.message # "" => reported' = Some(failure.message)]_vars


-----------------------------------------------------------------------------
(* Unmount while a commit is pending *)

\* a step taken while the component is unmounted commits nothing: the
\* filters, the committed search text and the argument of onSearch stay, no
\* commit is counted, and the URL is rewritten only by a delete that was
\* confirmed before the unmount
NoCommitStep ==
  /\ commits' = commits /\ lastCommit' = lastCommit
  /\ filters' = filters /\ currentPage' = currentPage
  /\ onSearchArg' = onSearchArg /\ searchQuery' = searchQuery
  /\ url' # url => IsPresent(deleteMutation)

\* C16: when the products page or the products table is unmounted while a
\* debounced search commit is pending, the timer is cancelled, and no commit
\* happens after the unmount: no filter change, no URL rewrite, no onSearch
\* call
C16_UnmountCancelsCommit ==
  /\ [](~mounted => debounceTimeout = Absent)
  /\ [][~mounted => NoCommitStep]_vars

\* the component was unmounted 100 ms after the last change of the search
\* text, before the timer of that change had run
C16_Witness ==
  /\ ~mounted
  /\ typed # <<>> /\ localSearchValue = LastTyped
  /\ sinceChange > 0 /\ sinceChange < DEBOUNCE_MS
  /\ commits = 0 /\ lastCommit = Absent /\ ~cleared


-----------------------------------------------------------------------------
(* The session: services/api interceptors and the auth store *)

\* what the session leaves alone: the products page, the table, the query
\* cache and the product store
appVars == <<component, mounted, phase, setterStable, localSearchValue,
             debounceTimeout, used, lastOp, submitted, rt, pageVars,
             tableVars, histVars, cacheVars, fetchVars>>

\* the API calls made under the session
ApiKinds == {"login", "register", "getProducts"}

\* the calls of the auth store
AuthKinds == {"login", "register"}

\* error.message in the catch block of login and of register: the message of
\* an envelope with success false, its fallback, or the text axios gives an
\* error status
AuthErrors(kind) ==
  {"Invalid credentials",
   IF kind = "login" THEN "Login failed" ELSE "Registration failed",
   "Request failed with status code 500"}

\* persist({ partialize }): the part of the auth store written to the item
\* 'auth-storage' on every set()
Partialize(state) == Session(state.user, state.token, state.isAuthenticated)

\* set(...) of the auth store, and the write of persist() that follows it
SetAuth(state) ==
  /\ auth' = state
  /\ authStorage' = Partialize(state)

\* the request interceptor: Authorization: Bearer <localStorage 'token'>
Bearer == lsToken

\* the login form is submitted, or a page under ProtectedRoute calls the API
ApiSend(kind) ==
  /\ component = "auth"
  /\ authRequest = Absent
  /\ kind \in AuthKinds => location = "login"
  /\ kind = "getProducts" => location = "app" /\ auth.isAuthenticated
  /\ authRequest' = Some([kind |-> kind, bearer |-> Bearer, sent |-> 1])
  /\ IF kind \in AuthKinds
     THEN SetAuth([auth EXCEPT !.isLoading = TRUE, !.error = Absent])
     ELSE UNCHANGED <<auth, authStorage>>
  /\ UNCHANGED <<lsToken, lsUser, location>>
  /\ UNCHANGED <<appVars, modalVars>>

\* the auth store after the catch block of the caller of a rejected request:
\* login and register record error.message, the product hooks leave the auth
\* store alone
AfterRejection(kind, message) ==
  IF kind \in AuthKinds
  THEN [auth EXCEPT !.error = Some(message), !.isLoading = FALSE,
                    !.isAuthenticated = FALSE]
  ELSE auth

\* useAuthStore.login / register, the request succeeded
LoginSuccess(user, token) ==
  /\ component = "auth"
  /\ IsPresent(authRequest) /\ authRequest[1].kind \in AuthKinds
  /\ lsToken' = Some(token)
  /\ SetAuth([user |-> Some(user), token |-> Some(token),
              isAuthenticated |-> TRUE, isLoading |-> FALSE,
              error |-> Absent])
  /\ authRequest' = Absent
  /\ UNCHANGED <<lsUser, location>>
  /\ UNCHANGED <<appVars, modalVars>>

\* useAuthStore.login / register, the catch block: an envelope with success
\* false or an error status other than 401
LoginFailure(message) ==
  /\ component = "auth"
  /\ IsPresent(authRequest) /\ authRequest[1].kind \in AuthKinds
  /\ message \in AuthErrors(authRequest[1].kind)
  /\ SetAuth(AfterRejection(authRequest[1].kind, message))
  /\ authRequest' = Absent
  /\ UNCHANGED <<lsToken, lsUser, location>>
  /\ UNCHANGED <<appVars, modalVars>>

\* a request of the products pages is answered, with a list or with an error
\* other than 401
ApiAnswered ==
  /\ component = "auth"
  /\ IsPresent(authRequest) /\ authRequest[1].kind = "getProducts"
  /\ authRequest' = Absent
  /\ UNCHANGED <<lsToken, lsUser, auth, authStorage, location>>
  /\ UNCHANGED <<appVars, modalVars>>

\* the response interceptor on error.response.status === 401: both items are
\* removed and window.location.href = '/login' loads the login view; the
\* rejection reaches the caller's catch block, the request is not sent again
Response401 ==
  /\ component = "auth"
  /\ IsPresent(authRequest)
  /\ lsToken' = Absent
  /\ lsUser' = Absent
  /\ location' = "login"
  /\ authStorage' =
       Partialize(AfterRejection(authRequest[1].kind,
                                 "Request failed with status code 401"))
  /\ auth' = Rehydrate(authStorage')
  /\ authRequest' = Absent
  /\ UNCHANGED <<appVars, modalVars>>

\* useAuthStore.logout; ProtectedRoute then renders <Navigate to="/login" />
Logout ==
  /\ component = "auth"
  /\ location = "app"
  /\ authRequest = Absent
  /\ lsToken' = Absent
  /\ lsUser' = Absent
  /\ SetAuth([auth EXCEPT !.user = Absent, !.token = Absent,
                          !.isAuthenticated = FALSE, !.error = Absent])
  /\ location' = "login"
  /\ UNCHANGED authRequest
  /\ UNCHANGED <<appVars, modalVars>>

\* useAuthStore.clearError
ClearError ==
  /\ component = "auth"
  /\ IsPresent(auth.error)
  /\ SetAuth([auth EXCEPT !.error = Absent])
  /\ UNCHANGED <<lsToken, lsUser, location, authRequest>>
  /\ UNCHANGED <<appVars, modalVars>>

\* the user opens a route under ProtectedRoute:
\* isAuthenticated ? <Outlet /> : <Navigate to="/login" />
OpenApp ==
  /\ component = "auth"
  /\ location = "login"
  /\ authRequest = Absent
  /\ auth.isAuthenticated
  /\ location' = "app"
  /\ UNCHANGED <<lsToken, lsUser, auth, authStorage, authRequest>>
  /\ UNCHANGED <<appVars, modalVars>>

\* a browser with no session at the login view, or with the session of an
\* earlier visit
InitAuth ==
  /\ component = "auth"
  /\ mounted = TRUE
  /\ phase = "ready"
  /\ setterStable = TRUE
  /\ url = EmptyUrl
  /\ filters = EmptyFilters
  /\ currentPage = 1
  /\ searchQuery = ""
  /\ localSearchValue = ""
  /\ debounceTimeout = Absent
  /\ hscFilters = EmptyFilters
  /\ localFilters = EmptyFilters
  /\ productsData = Absent
  /\ productToDelete = Absent
  /\ deleteMutation = Absent
  /\ onSearchArg = Absent
  /\ NoHistory
  /\ rt = Absent
  /\ NoFetch
  /\ NoModal
  /\ queryCache = <<>>
  /\ detailCache = <<>>
  /\ storeProducts = <<>>
  /\ storeCurrent = Absent
  /\ storeTotal = 0
  /\ pending = {}
  /\ lastPatch = Absent
  /\ NoFailure
  /\ \/ /\ lsToken = Absent /\ lsUser = Absent
        /\ authStorage = NoSession /\ auth = Rehydrate(NoSession)
        /\ location = "login" /\ authRequest = Absent
     \/ \E user \in Users, token \in Tokens : SignedInAs(user, token)

NextAuth ==
  \/ \E kind \in ApiKinds : ApiSend(kind)
  \/ \E user \in Users, token \in Tokens : LoginSuccess(user, token)
  \/ \E message \in {"Invalid credentials", "Login failed",
                       "Registration failed",
                       "Request failed with status code 500"} :
       LoginFailure(message)
  \/ ApiAnswered
  \/ Response401
  \/ Logout
  \/ ClearError
  \/ OpenApp

SpecAuth == InitAuth /\ [][NextAuth]_vars

\* C19: after a response with status 401 no credential remains and the
\* session is not authenticated: the items 'token' and 'user' are gone, the
\* auth store and its persisted copy hold no token, no user and are not
\* authenticated, the browser shows the login view, and the request is not
\* sent again
C19_UnauthorizedEndsSession ==
  [][Response401 =>
       /\ lsToken' = Absent /\ lsUser' = Absent
       /\ Partialize(auth') = NoSession
       /\ authStorage' = NoSession
       /\ location' = "login"
       /\ authRequest' = Absent]_vars


-----------------------------------------------------------------------------
(* Mutations in flight *)

\* C20: at most one delete request and at most one create request is in
\* flight at any time: the confirm and the submit control are disabled while
\* the mutation is pending, so no second request of the kind starts before
\* the first has settled
C20_OneMutationInFlight ==
  /\ Len(deleteMutation) <= 1
  /\ Len(createMutation) <= 1

\* a delete is in flight; the delete modal is still open and its controls
\* are disabled
C20_Witness ==
  /\ component = "page" /\ mounted
  /\ IsDeleting /\ IsPresent(productToDelete)
  /\ ControlsDisabled(IsDeleting)


-----------------------------------------------------------------------------
(* Stepping back after a delete *)

\* the delete request of the page succeeds and handleDeleteConfirm resumes
DeleteSucceeds == \E found \in BOOLEAN : DeleteSuccess(found)

\* the page is the one the delete was confirmed on
SamePageAsConfirmed == IsDeleting /\ deleteMutation[1].page = currentPage

\* the item of the confirmed delete was the only one shown when the delete
\* was confirmed and the page still shows one item, on a page after the first
OnlyItemOfLaterPage ==
  /\ SamePageAsConfirmed /\ deleteMutation[1].len = 1
  /\ ProductsLength = 1 /\ Gt(currentPage, 1)

\* the page is the first one, or other items remained when the delete was
\* confirmed and remain now
FirstPageOrOthersRemain ==
  /\ SamePageAsConfirmed
  /\ \/ ~Gt(currentPage, 1)
     \/ deleteMutation[1].len > 1 /\ ProductsLength > 1

\* C21: when a delete succeeds for the only item shown on the current page
\* and the current page is greater than 1, the current page becomes the
\* previous page and the URL is rewritten for that page with the current
\* filters; when the delete fails, the page is 1 or other items remain, the
\* page is unchanged
C21_DeleteStepsBack ==
  [][/\ (mounted /\ DeleteSucceeds /\ OnlyItemOfLaterPage) =>
          /\ currentPage' = currentPage - 1
          /\ url' = UrlParamsOf(filters', currentPage - 1)
     /\ (mounted /\ DeleteSucceeds /\ FirstPageOrOthersRemain) =>
          currentPage' = currentPage
     /\ DeleteFailure => currentPage' = currentPage]_vars


-----------------------------------------------------------------------------
(* The create forms: CreateProductModal and pages/CreateProduct *)

\* the longest SKU text typed in the model
MaxSkuLen == 3

\* characters of a SKU text, and the texts the user types
SkuChars == {"a", "B", " "}
SkuTexts == UNION {[1..n -> SkuChars] : n \in 0..MaxSkuLen}

\* cents the user enters as the price; <<>> is the emptied input
FormPrices == {<<>>, <<-1>>, <<0>>, <<1>>, <<1999>>}

\* String.prototype.toUpperCase on a SKU text
UpperChar(c) == IF c = "a" THEN "A" ELSE c
ToUpperCase(text) == [i \in DOMAIN text |-> UpperChar(text[i])]

\* String.prototype.trim
RECURSIVE TrimStart(_)
TrimStart(text) ==
  IF text # <<>> /\ Head(text) = " " THEN TrimStart(Tail(text)) ELSE text

RECURSIVE TrimEnd(_)
TrimEnd(text) ==
  IF text # <<>> /\ text[Len(text)] = " "
  THEN TrimEnd(SubSeq(text, 1, Len(text) - 1)) ELSE text

Trim(text) == TrimEnd(TrimStart(text))

\* register('sku', { minLength }) of a form: the modal requires 3
\* characters, the create page has no minLength rule
SkuMinLength(path) == IF path = "createModal" THEN <<3>> ELSE <<>>

\* register('sku', {...}): the message of the first rule that fails, in the
\* order react-hook-form applies them: required, minLength / maxLength,
\* validate
SkuError(path, sku) ==
  IF sku = <<>> THEN <<"SKU is required">>
  ELSE IF Len(sku) > 50 THEN <<"SKU cannot exceed 50 characters">>
  ELSE IF SkuMinLength(path) # <<>> /\ Len(sku) < SkuMinLength(path)[1]
       THEN <<"SKU must be at least 3 characters">>
  ELSE IF Len(Trim(sku)) = 0 THEN <<"SKU cannot be empty">>
  ELSE <<>>

\* register('price', { min }): 0.01 in the modal, 0 on the create page
PriceMin(path) == IF path = "createModal" THEN 1 ELSE 0

PriceMinMessage(path) ==
  IF path = "createModal" THEN "Price must be greater than 0"
  ELSE "Price cannot be negative"

\* register('price', {...}): required, then min
PriceError(path, price) ==
  IF price = <<>> THEN <<"Price is required">>
  ELSE IF price[1] < PriceMin(path) THEN <<PriceMinMessage(path)>>
  ELSE <<>>

\* a create form is shown
FormReady == component \in {"createModal", "createPage"} /\ mounted

\* the submit button: disabled while the request of the form is pending
FormSubmitting == createMutation # <<>>

\* the field is validated when it changes: the modal's form has mode
\* 'onChange', the page's form validates on change once it was submitted
ValidatesOnChange == component = "createModal" \/ form.isSubmitted

\* onChange of the sku input: setValue('sku', e.target.value.toUpperCase());
\* it replaces the onChange of register, so nothing is validated
FormSkuChange(text) ==
  /\ FormReady /\ ~FormSubmitting
  /\ form' = [form EXCEPT !.sku = ToUpperCase(text)]
  /\ form' # form
  /\ UNCHANGED <<isCreateModalOpen, createMutation>>
  /\ UNCHANGED <<appVars, authVars>>

\* onChange of the price input, as registered
FormPriceChange(price) ==
  /\ FormReady /\ ~FormSubmitting
  /\ form' = [form EXCEPT
                !.price = price,
                !.errors.price = IF ValidatesOnChange
                                 THEN PriceError(component, price) ELSE @]
  /\ form' # form
  /\ UNCHANGED <<isCreateModalOpen, createMutation>>
  /\ UNCHANGED <<appVars, authVars>>

\* handleSubmit(onSubmit): every field is validated; onSubmit runs only when
\* no field has an error, and sends the form data with the SKU in upper case
FormSubmit ==
  /\ FormReady /\ ~FormSubmitting
  /\ LET errors == [sku |-> SkuError(component, form.sku),
                    price |-> PriceError(component, form.price)]
         valid == errors.sku = <<>> /\ errors.price = <<>>
     IN /\ form' = [form EXCEPT !.errors = errors, !.isSubmitted = TRUE]
        /\ createMutation' =
             IF valid
             THEN Append(createMutation,
                         [sku |-> ToUpperCase(form.sku), price |-> form.price])
             ELSE createMutation
  /\ UNCHANGED isCreateModalOpen
  /\ UNCHANGED <<appVars, authVars>>

\* onSubmit after its await, the request succeeded: reset(), and the modal
\* is closed or the page left
FormCreateSuccess ==
  /\ FormReady /\ FormSubmitting
  /\ createMutation' = Tail(createMutation)
  /\ form' = FreshForm(component)
  /\ UNCHANGED isCreateModalOpen
  /\ UNCHANGED <<appVars, authVars>>

\* onSubmit, the catch block: the form keeps its values
FormCreateFailure ==
  /\ FormReady /\ FormSubmitting
  /\ createMutation' = Tail(createMutation)
  /\ UNCHANGED <<isCreateModalOpen, form>>
  /\ UNCHANGED <<appVars, authVars>>

\* a create form as opened
InitForm ==
  /\ component \in {"createModal", "createPage"}
  /\ mounted = TRUE
  /\ phase = "ready"
  /\ setterStable = TRUE
  /\ url = EmptyUrl
  /\ filters = EmptyFilters
  /\ currentPage = 1
  /\ searchQuery = ""
  /\ localSearchValue = ""
  /\ debounceTimeout = Absent
  /\ hscFilters = EmptyFilters
  /\ localFilters = EmptyFilters
  /\ productsData = Absent
  /\ productToDelete = Absent
  /\ deleteMutation = Absent
  /\ onSearchArg = Absent
  /\ NoHistory
  /\ rt = Absent
  /\ NoFetch
  /\ isCreateModalOpen = (component = "createModal")
  /\ createMutation = <<>>
  /\ form = FreshForm(component)
  /\ SignedIn
  /\ queryCache = <<>>
  /\ detailCache = <<>>
  /\ storeProducts = <<>>
  /\ storeCurrent = Absent
  /\ storeTotal = 0
  /\ pending = {}
  /\ lastPatch = Absent
  /\ NoFailure

NextForm ==
  \/ \E text \in SkuTexts : FormSkuChange(text)
  \/ \E price \in FormPrices : FormPriceChange(price)
  \/ FormSubmit
  \/ FormCreateSuccess
  \/ FormCreateFailure

SpecForm == InitForm /\ [][NextForm]_vars

\* C22: on the create modal and on the create page, submitting a SKU of one
\* or two characters is rejected with the message 'SKU must be at least 3
\* characters', and no create request is sent
C22_ShortSkuRejected ==
  [][(FormSubmit /\ Len(form.sku) \in 1..2) =>
       /\ form'.errors.sku = <<"SKU must be at least 3 characters">>
       /\ createMutation' = createMutation]_vars

\* C23: on the create modal and on the create page, a create request is sent
\* only when the price is present and greater than 0; a missing, zero or
\* negative price gives a message at the price field and no request
C23_PricePositiveToSend ==
  [][FormSubmit =>
       /\ createMutation' # createMutation =>
            (form.price # <<>> /\ form.price[1] > 0)
       /\ (form.price = <<>> \/ form.price[1] <= 0) =>
            (form'.errors.price # <<>> /\ createMutation' = createMutation)]_vars


\* C24: a delete patch changes only the cached lists that hold the deleted
\* id: a cached list without a record of that id keeps its records and its
\* total as they were
C24_RemoveLeavesOtherEntries ==
  (component = "query" /\ Patched("delete")) =>
    \A k \in ListKeys :
      (/\ IsPresent(lastPatch[1].lists[k])
       /\ ~HasId(lastPatch[1].lists[k][1].data, lastPatch[1].product.id)) =>
        queryCache[k] = lastPatch[1].lists[k]


-----------------------------------------------------------------------------
(* The filter dropdown: local edits and submissions *)

\* a control of the filter dropdown is edited: a category, a price, in stock
PanelEdit ==
  \/ \E c \in Categories, checked \in BOOLEAN : HandleCategoryChange(c, checked)
  \/ \E field \in {"minPrice", "maxPrice"}, value \in PriceInputs :
       HandlePriceChange(field, value)
  \/ \E checked \in BOOLEAN : HandleInStockChange(checked)

\* the products page after its first render
InitFilters == Init /\ component = "page"

\* the search box and the filter dropdown of the products page
NextFilters ==
  \/ InitializeFromUrl
  \/ \E value \in SearchTexts : HandleSearchChange(value)
  \/ DebounceFire
  \/ ClearSearch
  \/ PanelEdit
  \/ ApplyFilters
  \/ ClearFilters
  \/ \E d \in TimeSteps : Tick(d)

SpecFilters == InitFilters /\ [][NextFilters]_vars

\* C26: editing the category, price or in-stock control of the filter
\* dropdown changes the dropdown's local filters only, and onFiltersChange is
\* not called; onFiltersChange is called only by 'Apply filters', with the
\* local filters, and by Clear, with every field absent but the committed
\* search
C26_OnlySubmitCallsOnFiltersChange ==
  [][/\ PanelEdit =>
          /\ localFilters' # localFilters
          /\ UNCHANGED <<filters, currentPage, url, submitted>>
     /\ ApplyFilters => filters' = localFilters
     /\ ClearFilters =>
          /\ filters' = [EmptyFilters EXCEPT !.search = filters.search]
          /\ localFilters' = filters'
     /\ submitted' # submitted => (ApplyFilters \/ ClearFilters)]_vars

\* Clear was pressed while a search was committed, and a category was ticked
\* afterwards without a submission
C26_Witness ==
  /\ component = "page" /\ mounted
  /\ lastOp = "filters"
  /\ submitted[1].panel = EmptyFilters
  /\ TruthyStr(submitted[1].search)
  /\ filters = [EmptyFilters EXCEPT !.search = submitted[1].search]
  /\ localFilters.category = Some("Books")


-----------------------------------------------------------------------------
(* The auth store under overlapping calls (useAuthStore) *)

\* the async actions of the auth store
AuthStoreKinds == {"login", "register", "checkAuth", "updateProfile"}

\* the async actions of the auth store that can be awaiting at once
MaxAuthCalls == 2

\* authRequest without its i-th call
WithoutCall(i) ==
  SubSeq(authRequest, 1, i - 1) \o SubSeq(authRequest, i + 1, Len(authRequest))

\* the auth store and the browser are used through the store's actions only
AuthStoreInUse == component = "authStore"

\* login, register, updateProfile up to the await:
\* set({ isLoading: true, error: null }); checkAuth reads the item 'token'
\* and, when there is one, set({ isLoading: true }) and awaits getProfile
AuthCallStarts(kind) ==
  /\ AuthStoreInUse
  /\ Len(authRequest) < MaxAuthCalls
  /\ kind = "checkAuth" => IsPresent(lsToken)
  /\ used < MaxGestures
  /\ used' = used + 1
  /\ lastOp' = kind
  /\ authRequest' = Append(authRequest,
                           [kind |-> kind, bearer |-> Bearer, token |-> lsToken])
  /\ SetAuth(IF kind = "checkAuth" THEN [auth EXCEPT !.isLoading = TRUE]
             ELSE [auth EXCEPT !.isLoading = TRUE, !.error = Absent])
  /\ UNCHANGED <<lsToken, lsUser, location>>
  /\ UNCHANGED <<component, mounted, phase, setterStable, localSearchValue,
                 debounceTimeout, submitted, rt, pageVars, tableVars,
                 histVars, cacheVars, fetchVars, modalVars>>

\* checkAuth without the item 'token': set({ isAuthenticated: false }); return
CheckAuthWithoutToken ==
  /\ AuthStoreInUse
  /\ lsToken = Absent
  /\ used < MaxGestures
  /\ used' = used + 1
  /\ lastOp' = "checkAuth"
  /\ SetAuth([auth EXCEPT !.isAuthenticated = FALSE])
  /\ UNCHANGED <<lsToken, lsUser, location, authRequest>>
  /\ UNCHANGED <<component, mounted, phase, setterStable, localSearchValue,
                 debounceTimeout, submitted, rt, pageVars, tableVars,
                 histVars, cacheVars, fetchVars, modalVars>>

\* the auth store after the i-th call resolved with success: login and
\* register store the user and the token of the response, checkAuth the
\* profile and the token it read before its await, updateProfile the user
AuthAfterSuccess(call, user, token) ==
  CASE call.kind \in AuthKinds ->
         [user |-> Some(user), token |-> Some(token), isAuthenticated |-> TRUE,
          isLoading |-> FALSE, error |-> Absent]
    [] call.kind = "checkAuth" ->
         [auth EXCEPT !.user = Some(user), !.token = call.token,
                      !.isAuthenticated = TRUE, !.isLoading = FALSE]
    [] call.kind = "updateProfile" ->
         [auth EXCEPT !.user = Some(user), !.isLoading = FALSE]

\* the i-th call in flight resolves with success
AuthCallSucceeds(i, user, token) ==
  /\ AuthStoreInUse
  /\ i \in DOMAIN authRequest
  /\ authRequest' = WithoutCall(i)
  /\ lsToken' = IF authRequest[i].kind \in AuthKinds THEN Some(token)
                ELSE lsToken
  /\ SetAuth(AuthAfterSuccess(authRequest[i], user, token))
  /\ UNCHANGED <<lsUser, location>>
  /\ UNCHANGED <<appVars, modalVars>>

\* the auth store after the catch block of the call: login and register set
\* the error and isAuthenticated false, checkAuth clears the session,
\* updateProfile sets the error
AuthAfterFailure(call, message) ==
  CASE call.kind \in AuthKinds -> AfterRejection(call.kind, message)
    [] call.kind = "checkAuth" ->
         [auth EXCEPT !.user = Absent, !.token = Absent,
                      !.isAuthenticated = FALSE, !.isLoading = FALSE]
    [] call.kind = "updateProfile" ->
         [auth EXCEPT !.error = Some(message), !.isLoading = FALSE]

\* the i-th call in flight is rejected, or its envelope has success false
AuthCallFails(i, message) ==
  /\ AuthStoreInUse
  /\ i \in DOMAIN authRequest
  /\ authRequest' = WithoutCall(i)
  /\ lsToken' = IF authRequest[i].kind = "checkAuth" THEN Absent ELSE lsToken
  /\ SetAuth(AuthAfterFailure(authRequest[i], message))
  /\ UNCHANGED <<lsUser, location>>
  /\ UNCHANGED <<appVars, modalVars>>

\* useAuthStore.logout(): nothing cancels the calls in flight
AuthStoreLogout ==
  /\ AuthStoreInUse
  /\ used < MaxGestures
  /\ used' = used + 1
  /\ lastOp' = "logout"
  /\ lsToken' = Absent
  /\ lsUser' = Absent
  /\ SetAuth([auth EXCEPT !.user = Absent, !.token = Absent,
                          !.isAuthenticated = FALSE, !.error = Absent])
  /\ UNCHANGED <<location, authRequest>>
  /\ UNCHANGED <<component, mounted, phase, setterStable, localSearchValue,
                 debounceTimeout, submitted, rt, pageVars, tableVars,
                 histVars, cacheVars, fetchVars, modalVars>>

\* the auth store as created, or as restored from the session of a login
InitAuthStore ==
  /\ component = "authStore"
  /\ mounted = TRUE
  /\ phase = "ready"
  /\ setterStable = TRUE
  /\ url = EmptyUrl
  /\ filters = EmptyFilters
  /\ currentPage = 1
  /\ searchQuery = ""
  /\ localSearchValue = ""
  /\ debounceTimeout = Absent
  /\ hscFilters = EmptyFilters
  /\ localFilters = EmptyFilters
  /\ productsData = Absent
  /\ productToDelete = Absent
  /\ deleteMutation = Absent
  /\ onSearchArg = Absent
  /\ NoHistory
  /\ rt = Absent
  /\ NoFetch
  /\ NoModal
  /\ queryCache = <<>>
  /\ detailCache = <<>>
  /\ storeProducts = <<>>
  /\ storeCurrent = Absent
  /\ storeTotal = 0
  /\ pending = {}
  /\ lastPatch = Absent
  /\ NoFailure
  /\ \/ /\ lsToken = Absent /\ lsUser = Absent
        /\ authStorage = NoSession /\ auth = Rehydrate(NoSession)
        /\ location = "login" /\ authRequest = Absent
     \/ SignedIn

NextAuthStore ==
  \/ \E kind \in AuthStoreKinds : AuthCallStarts(kind)
  \/ CheckAuthWithoutToken
  \/ \E i \in 1..MaxAuthCalls, user \in Users, token \in Tokens :
       AuthCallSucceeds(i, user, token)
  \/ \E i \in 1..MaxAuthCalls : AuthCallFails(i, "Request failed with status code 500")
  \/ AuthStoreLogout

SpecAuthStore == InitAuthStore /\ [][NextAuthStore]_vars

\* C27: in every state of the auth store, isAuthenticated is true exactly
\* when the token and the user are both present
C27_AuthenticatedIffSession ==
  AuthStoreInUse =>
    (auth.isAuthenticated <=> (IsPresent(auth.token) /\ IsPresent(auth.user)))

\* C28: after logout, and until a login, register or checkAuth call is
\* started, the auth store has no user, no token and is not authenticated,
\* whatever calls that were in flight at the logout complete meanwhile
C28_LogoutIsFinal ==
  (AuthStoreInUse /\ lastOp = "logout") =>
    /\ auth.user = Absent
    /\ auth.token = Absent
    /\ ~auth.isAuthenticated


-----------------------------------------------------------------------------
(* The product store under overlapping calls (useProductStore) *)

\* the async actions of the product store
StoreCallKinds == StoreKinds \cup {"searchProducts"}

\* the two actions that replace the stored list by the list of a response
ListKinds == {"fetchProducts", "searchProducts"}

\* calls of the store's async actions in one behaviour
MaxStoreCalls == 2

\* the store is used through its actions, by any number of components
StoreCallsInUse == component = "storeCalls"

\* what the calls of the store leave alone
storeCallsRest == <<component, mounted, phase, setterStable, localSearchValue,
                    debounceTimeout, used, lastOp, submitted, rt, pageVars,
                    tableVars, histVars, queryCache, detailCache, queryError,
                    fetching, modalVars, authVars>>

\* the server holds the product p1, and the products of the createProduct
\* calls it has received
ServerHolds(id) ==
  \/ id = "p1"
  \/ \E i \in DOMAIN issued :
       issued[i].kind = "createProduct" /\ issued[i].id = id

\* the lists the server can answer with while the calls are under way
ServerListsNow ==
  {r \in ServerPages : \A i \in DOMAIN r.data : ServerHolds(r.data[i].id)}

\* the kinds of the calls in c
KindsOf(c) == {call.kind : call \in c}

\* an async action of the store is called: set({ isLoading: true,
\* error: null }), then the request is awaited; id is the argument of
\* fetchProduct, updateProduct and deleteProduct, and for createProduct the
\* _id the server gives the new product
StoreCallStarts(kind, id) ==
  /\ StoreCallsInUse
  /\ Len(issued) < MaxStoreCalls
  /\ kind \in ListKinds => id = "p1"
  /\ kind = "createProduct" => ~ServerHolds(id)
  /\ LET call == [n |-> Len(issued) + 1, kind |-> kind, id |-> id]
     IN /\ issued' = Append(issued, call)
        /\ pending' = pending \cup {call}
        /\ storeInFlight' = KindsOf(pending \cup {call})
  /\ storeLoading' = TRUE
  /\ storeError' = Absent
  /\ UNCHANGED <<storeProducts, storeCurrent, storeTotal, lastPatch, reported>>
  /\ UNCHANGED storeCallsRest

\* a list response is applied only when no later list call was issued
StoreAfterList_LatestOnly(call, r) ==
  IF \E i \in DOMAIN issued : issued[i].kind \in ListKinds /\ issued[i].n > call.n
  THEN [data |-> storeProducts, total |-> storeTotal]
  ELSE r

\* fetchProducts / searchProducts after the await:
\* set({ products: response.data.items, pagination: response.data.pagination })
StoreAfterList(call, r) == r

\* the latest completed call, with the list call that completed before it
Completion(call, r) ==
  Some([kind |-> call.kind, n |-> call.n, result |-> r,
        prev |-> IF IsPresent(lastPatch) /\ lastPatch[1].kind \in ListKinds
                 THEN lastPatch[1].n ELSE 0])

\* the success branch of the action of the call, applied to the store
StoreSuccessApplied(call, r, p) ==
  /\ call.kind \in ListKinds =>
       (p = [id |-> "p1", ver |-> 1] /\ r \in ServerListsNow)
  /\ call.kind \notin ListKinds => r = [data |-> <<>>, total |-> 0]
  /\ call.kind \in {"fetchProduct", "updateProduct"} => p.id = call.id
  /\ call.kind \in {"createProduct", "deleteProduct"} =>
       p = [id |-> call.id, ver |-> 1]
  /\ pending' = pending \ {call}
  /\ storeInFlight' = KindsOf(pending \ {call})
  /\ storeLoading' = FALSE
  /\ storeProducts' =
       CASE call.kind \in ListKinds -> StoreAfterList(call, r).data
         [] call.kind = "fetchProduct" -> storeProducts
         [] call.kind = "createProduct" -> <<p>> \o storeProducts
         [] call.kind = "updateProduct" -> MapReplace(storeProducts, call.id, p)
         [] call.kind = "deleteProduct" ->
              SelectSeq(storeProducts, LAMBDA q : q.id # call.id)
  /\ storeTotal' = IF call.kind \in ListKinds
                   THEN StoreAfterList(call, r).total ELSE storeTotal
  /\ storeCurrent' =
       CASE call.kind \in {"fetchProduct", "updateProduct"} -> Some(p)
         [] call.kind = "deleteProduct" -> Absent
         [] OTHER -> storeCurrent
  /\ lastPatch' = Completion(call, r)
  /\ UNCHANGED <<issued, storeError, reported>>
  /\ UNCHANGED storeCallsRest

\* the n-th call issued, while it is in flight
CallInFlight(n) == CHOOSE call \in pending : call.n = n

\* the n-th call resolves with success: the success branch of its action;
\* r is the list of the response, p its product
StoreCallSucceeds(n, r, p) ==
  /\ StoreCallsInUse
  /\ \E c \in pending : c.n = n
  /\ StoreSuccessApplied(CallInFlight(n), r, p)

\* the n-th call issued fails: the catch block of its action,
\* set({ error, isLoading: false }); the mutations rethrow and their caller
\* shows the message
StoreCallFails(n, failure) ==
  /\ StoreCallsInUse
  /\ \E c \in pending : c.n = n
  /\ LET call == CallInFlight(n)
     IN /\ pending' = pending \ {call}
        /\ storeInFlight' = KindsOf(pending \ {call})
        /\ storeError' = Some(ErrorMessage(call.kind, failure))
        /\ reported' = IF call.kind \in MutationKinds
                       THEN Some(ErrorMessage(call.kind, failure)) ELSE reported
  /\ storeLoading' = FALSE
  /\ UNCHANGED <<issued, storeProducts, storeCurrent, storeTotal, lastPatch>>
  /\ UNCHANGED storeCallsRest

\* the store as created
InitStoreCalls ==
  /\ component = "storeCalls"
  /\ mounted = TRUE
  /\ phase = "ready"
  /\ setterStable = TRUE
  /\ url = EmptyUrl
  /\ filters = EmptyFilters
  /\ currentPage = 1
  /\ searchQuery = ""
  /\ localSearchValue = ""
  /\ debounceTimeout = Absent
  /\ hscFilters = EmptyFilters
  /\ localFilters = EmptyFilters
  /\ productsData = Absent
  /\ productToDelete = Absent
  /\ deleteMutation = Absent
  /\ onSearchArg = Absent
  /\ NoHistory
  /\ rt = Absent
  /\ NoFetch
  /\ NoModal
  /\ SignedIn
  /\ queryCache = [k \in ListKeys |-> Absent]
  /\ detailCache = [id \in Ids |-> Absent]
  /\ storeProducts = <<>>
  /\ storeCurrent = Absent
  /\ storeTotal = 0
  /\ pending = {}
  /\ lastPatch = Absent
  /\ NoFailure

NextStoreCalls ==
  \/ \E kind \in StoreCallKinds, id \in Ids : StoreCallStarts(kind, id)
  \/ \E n \in 1..MaxStoreCalls, r \in ServerPages, p \in Products :
       StoreCallSucceeds(n, r, p)
  \/ \E n \in 1..MaxStoreCalls, failure \in Failures : StoreCallFails(n, failure)

SpecStoreCalls == InitStoreCalls /\ [][NextStoreCalls]_vars

\* C25: when list fetches of the store overlap, each result is applied when
\* its request completes: after a list request completed, the stored list
\* and the pagination are those of the request that completed last, whatever
\* the order in which the requests were issued
C25_LastCompletedFetchWins ==
  (StoreCallsInUse /\ IsPresent(lastPatch) /\ lastPatch[1].kind \in ListKinds) =>
    /\ storeProducts = lastPatch[1].result.data
    /\ storeTotal = lastPatch[1].result.total

\* two list fetches overlapped and the one issued first completed last, with
\* another list than the one issued second
C25_Witness ==
  /\ StoreCallsInUse /\ pending = {}
  /\ IsPresent(lastPatch) /\ lastPatch[1].kind = "fetchProducts"
  /\ lastPatch[1].n = 1 /\ lastPatch[1].prev = 2
  /\ issued[2].kind = "fetchProducts"
  /\ Len(lastPatch[1].result.data) = 1
  /\ storeProducts = lastPatch[1].result.data
  /\ storeTotal = 2

\* C29: in the product store, isLoading is true exactly while at least one
\* call of its async actions is in flight
C29_LoadingWhileInFlight ==
  StoreCallsInUse => (storeLoading <=> pending # {})

\* C30: the stored product list never holds two records with the same _id,
\* however the completions of list fetches and of creates interleave
C30_NoDuplicateIds ==
  StoreCallsInUse => DistinctIds(storeProducts)

====
